---- MODULE Spec2Model ----
(***************************************************************************)
(* A model of the exercise engine (src/src/lib/ExerciseEngine.ts): the     *)
(* per-frame pipeline of processFrame (calibration gate, angle latching,   *)
(* velocity guard, moving-average smoothing, pain escalation, phase        *)
(* detection with debounce and cooldown, rep counting), the subscription   *)
(* hooks and reset().                                                      *)
(*                                                                         *)
(* A landmark frame enters the model as what the engine reads from it: the *)
(* number of landmarks, the primary angle getPrimaryAngle returns (-1 when *)
(* unreliable), the raw pain score analyzePainClinical returns (in tenths  *)
(* of the 0-10 scale), the form-evaluation summary, and the facial ratios  *)
(* calibration averages.  Angles are exact rationals <<num, den>>.         *)
(* Timestamps are integer milliseconds and strictly increasing, as the     *)
(* capture loop produces them (performance.now()).                         *)
(***************************************************************************)
EXTENDS Integers, Sequences, FiniteSets, TLC

VARIABLES
    eng,      \* the ExerciseEngine object: its private fields and eng.state
    now,      \* timestamp of the last frame handed to processFrame (NULL: none yet)
    last,     \* what the last operation was and what it notified
    env,      \* the session's input alphabet and bounds, fixed by Init
    nframes,  \* processFrame calls so far
    nshort,   \* processFrame calls so far with fewer than 33 landmarks
    nresets,  \* reset() calls so far
    mon,      \* what an observer of the calls and returned states has noted
    fresh,    \* a new engine fed the frames fed since the last reset()
    cam,      \* the WebcamCanvas capture loops: its refs, the clock, the loops
    call      \* a call of a Biometrics function: arguments and result

vars == <<eng, now, last, env, nframes, nshort, nresets, mon, fresh, cam, call>>

-----------------------------------------------------------------------------
(* Bounds of the model *)

MaxFramesPain == 9
MaxFramesRep == 96
MaxFramesGen == 12
MaxResets == 1
MaxSubscribers == 1
MaxCycles == 2
MaxRepeats == 12
MaxShortFrames == 1
MaxFramesCal == 7
MaxListeners == 2
MaxLoops == 2
MaxStresses == 7
MaxClock == 120
MaxFramesPlank == 24
MaxFramesPlankBent == 18
MaxFramesPlankFast == 40

-----------------------------------------------------------------------------
(* Program constants *)

NULL == -1
REP_COOLDOWN_MS == 850
SMA_WINDOW == 7
EMA_ALPHA_TENTHS == 3
MIN_PHASE_FRAMES == 4
MIN_LANDMARKS == 33
DEFAULT_DELTA_MS == 16
LATCH_MS == 300
ANGLE_HISTORY_MAX == 10
GLITCH_VELOCITY == 1000
CALIBRATION_MS == 3000
PAIN_THRESHOLD_MILLI == 8500
ACUTE_PAIN_MS == 2500
HYSTERESIS == 10
PEAK_MARGIN == 15
PLANK_ALIGN_MARGIN == 30
PLANK_FORM_MIN == 70
FRAME_INTERVAL_MS == 40

-----------------------------------------------------------------------------
(* Exact arithmetic on JS numbers that the engine averages: a rational is  *)
(* <<n, d>> with d > 0 in lowest terms, so equality is tuple equality.     *)

Abs(x) == IF x < 0 THEN -x ELSE x

RECURSIVE Gcd(_, _)
Gcd(a, b) == IF b = 0 THEN a ELSE Gcd(b, a % b)

Rat(n, d) == LET g == Gcd(Abs(n), d) IN <<n \div g, d \div g>>

RInt(n) == <<n, 1>>

RAdd(a, b) == Rat(a[1] * b[2] + b[1] * a[2], a[2] * b[2])

RAbsDiff(a, b) == Rat(Abs(a[1] * b[2] - b[1] * a[2]), a[2] * b[2])

RLt(a, b) == a[1] * b[2] < b[1] * a[2]

RGt(a, b) == RLt(b, a)

RECURSIVE RSum(_)
RSum(s) == IF s = <<>> THEN RInt(0) ELSE RAdd(Head(s), RSum(Tail(s)))

\* Math.round of a non-negative rational: floor(x + 1/2)
RRound(a) == (2 * a[1] + a[2]) \div (2 * a[2])

\* the sentinel getKneeAngle / getRobustElbowAngle return for an unreliable angle
UNRELIABLE == <<-1, 1>>

ZERO == <<0, 1>>

RMin(a, b) == IF RLt(b, a) THEN b ELSE a

-----------------------------------------------------------------------------
(* The exercise catalog (@/data/exercises), which the engine only reads:   *)
(* the known ids and their two thresholds.                                 *)

DownFirstExercises == {"pushup", "tricep-dip", "squat", "lunge", "calf-raise"}

UpFirstExercises == {"bicep-curl", "shoulder-press", "lateral-raise", "jumping-jack"}

RepExercises == DownFirstExercises \cup UpFirstExercises

KnownExercises == RepExercises \cup {"plank"}

\* getExerciseById(id) is undefined for an id the catalog does not hold
ExerciseKnown(id) == id \in KnownExercises

\* the push-up entry, as the README gives it
PushupThresholds == [downAngleThreshold |-> 90, upAngleThreshold |-> 160]

\* the entries of the other exercises
CatalogThresholds(id) ==
    IF id = "bicep-curl" THEN [downAngleThreshold |-> 160, upAngleThreshold |-> 50]
    ELSE [downAngleThreshold |-> 90, upAngleThreshold |-> 160]

\* this.exercise, for a known id
Exercise(id) == IF id = "pushup" THEN PushupThresholds ELSE CatalogThresholds(id)

DownAngleThreshold(id) == Exercise(id).downAngleThreshold

UpAngleThreshold(id) == Exercise(id).upAngleThreshold

-----------------------------------------------------------------------------
(* Biometrics.ts, as far as the engine reads its results *)

\* analyzePainClinical's bands on the raw score p (tenths of the 0-10 scale)
IntensityLevel(p) ==
    IF p > 90 THEN "Critical"
    ELSE IF p > 70 THEN "High"
    ELSE IF p > 40 THEN "Moderate"
    ELSE "Low"

RecommendedAction(level) ==
    IF level \in {"Critical", "High"} THEN "STOP_EXERCISE"
    ELSE IF level = "Moderate" THEN "Warning: Reduce Weight"
    ELSE "Continue"

\* the PainAnalysis of a frame whose face scores p; confidence in hundredths
PainAnalysisOf(p) ==
    [pain_detected |-> p > 75,
     confidence_score |-> 85,
     intensity_level |-> IntensityLevel(p),
     recommended_action |-> RecommendedAction(IntensityLevel(p)),
     pain_score_raw |-> p * 100]

\* calculateBiometrics' default safety log; painScore = pain_score_raw * 10
DefaultSafetyLog(p) ==
    [status |-> "Scanning",
     pain_level |-> p,
     ui_message |-> IF p > 70 THEN "PAIN DETECTED: Stop!"
                    ELSE IF p > 40 THEN "Take a breath" ELSE "Scanning...",
     system_command |-> "null"]

\* calculateFormScore without the final Math.max / Math.min
CalculateFormScore_NoClamp(nBad, nWarn, overallSymmetry) ==
    RRound(Rat((100 - 15 * nBad - 5 * nWarn) * 5 + (overallSymmetry - 50), 5))

\* calculateFormScore on nBad 'bad' and nWarn 'warning' entries
CalculateFormScore(nBad, nWarn, overallSymmetry) ==
    LET score == Rat((100 - 15 * nBad - 5 * nWarn) * 5 + (overallSymmetry - 50), 5)
        rounded == RRound(score)
    IN IF rounded < 0 THEN 0 ELSE IF rounded > 100 THEN 100 ELSE rounded

\* jointStresses.forEach: the entries of the list (given as its stress
\* levels, the only field read) that have the level
RECURSIVE CountLevel(_, _)
CountLevel(levels, level) ==
    IF levels = <<>> THEN 0
    ELSE (IF Head(levels) = level THEN 1 ELSE 0) + CountLevel(Tail(levels), level)

\* calculateFormScore(biometrics, jointStresses)
CalculateFormScoreOfList(levels, overallSymmetry) ==
    CalculateFormScore(CountLevel(levels, "bad"), CountLevel(levels, "warning"),
                       overallSymmetry)

Stress(joint, level) == [jointId |-> joint, stressLevel |-> level]

Both(left, right, level) == <<Stress(left, level), Stress(right, level)>>

\* the statements that follow the plank case's break
DefaultJointStresses ==
    [i \in 1..8 |->
       Stress(<<"LEFT_SHOULDER", "RIGHT_SHOULDER", "LEFT_ELBOW", "RIGHT_ELBOW",
                "LEFT_HIP", "RIGHT_HIP", "LEFT_KNEE", "RIGHT_KNEE">>[i], "good")]

\* evaluateForm(landmarks, exerciseId, biometrics): b holds the joint angles,
\* the knee symmetry score and the visibility (hundredths) of the two knees
EvaluateForm(exerciseId, b) ==
    LET a == b.jointAngles
    IN IF exerciseId = "pushup"
       THEN (IF a.leftElbow + a.rightElbow < 2 * 70
             THEN Both("LEFT_ELBOW", "RIGHT_ELBOW", "bad")
             ELSE IF a.leftElbow + a.rightElbow > 2 * 160
             THEN Both("LEFT_ELBOW", "RIGHT_ELBOW", "good")
             ELSE Both("LEFT_ELBOW", "RIGHT_ELBOW", "warning"))
            \o <<Stress("LEFT_HIP", IF a.spine < 160 THEN "bad" ELSE "good")>>
       ELSE IF exerciseId = "squat"
       THEN LET twice == IF b.leftVis > 50 /\ b.rightVis > 50
                         THEN a.leftKnee + a.rightKnee
                         ELSE IF b.leftVis > b.rightVis
                         THEN 2 * a.leftKnee ELSE 2 * a.rightKnee
            IN Both("LEFT_KNEE", "RIGHT_KNEE",
                    IF twice < 2 * 80 \/ twice > 2 * 140 THEN "warning" ELSE "good")
               \o (IF b.leftVis > 60 /\ b.rightVis > 60 /\ b.kneeSymmetry < 75
                   THEN <<Stress("LEFT_KNEE", "bad")>> ELSE <<>>)
       ELSE IF exerciseId = "bicep-curl"
       THEN Both("LEFT_SHOULDER", "RIGHT_SHOULDER",
                 IF Abs(a.leftShoulder - a.rightShoulder) > 20 THEN "bad" ELSE "good")
            \o Both("LEFT_ELBOW", "RIGHT_ELBOW", "good")
       ELSE IF exerciseId = "plank"
       THEN Both("LEFT_HIP", "RIGHT_HIP",
                 IF a.leftHip + a.rightHip < 2 * 160 \/ a.leftHip + a.rightHip > 2 * 200
                 THEN "bad" ELSE "good")
            \o <<Stress("LEFT_KNEE",
                        IF a.leftKnee + a.rightKnee < 2 * 160 THEN "warning" ELSE "good")>>
            \o <<Stress("LEFT_SHOULDER",
                        IF \/ a.leftShoulder + a.rightShoulder > 2 * 110
                           \/ a.leftShoulder + a.rightShoulder < 2 * 70
                        THEN "warning" ELSE "good")>>
       ELSE <<>>

-----------------------------------------------------------------------------
(* The engine object *)

NoPainAnalysis ==
    [pain_detected |-> FALSE,
     confidence_score |-> 0,
     intensity_level |-> "Low",
     recommended_action |-> "Continue",
     pain_score_raw |-> 0]

\* the ExerciseState literal of the constructor and of reset()
InitialState(id) ==
    [exerciseId |-> id,
     phase |-> "IDLE",
     repCount |-> 0,
     currentAngle |-> ZERO,
     formScore |-> 100,
     jointStress |-> <<0, 0>>,
     angularVelocity |-> ZERO,
     symmetryScore |-> 100,
     isHolding |-> FALSE,
     painScore |-> 0,
     painAnalysis |-> NoPainAnalysis,
     safetyLog |-> [status |-> "Scanning",
                    pain_level |-> 0,
                    ui_message |-> "Starting calibration...",
                    system_command |-> "null"],
     isCalibrating |-> TRUE,
     calibrationProgress |-> ZERO,
     lastRepTime |-> NULL]

\* the field initialisers and the constructor
NewEngine(id) ==
    [exerciseId |-> id,
     state |-> InitialState(id),
     hasPreviousLandmarks |-> FALSE,
     previousTimestamp |-> 0,
     angleHistory |-> <<>>,
     repCallbacks |-> 0,
     formCallbacks |-> 0,
     stopCallbacks |-> 0,
     cumulativeHoldDuration |-> 0,
     lastHoldTick |-> 0,
     acutePainStartTime |-> NULL,
     calibrationFrames |-> <<>>,
     calibrationStartTime |-> NULL,
     baseline |-> <<>>,
     smaAngleHistory |-> <<>>,
     painEMA |-> 0,
     lastRepTimestamp |-> 0,
     lastAttemptedPhase |-> "IDLE",
     phaseFrameCount |-> 0,
     lastValidAngleTimestamp |-> 0]

\* reset(): a new ExerciseState and the private fields it reassigns
ResetEngine(e) ==
    [e EXCEPT
        !.state = InitialState(e.exerciseId),
        !.hasPreviousLandmarks = FALSE,
        !.previousTimestamp = 0,
        !.angleHistory = <<>>,
        !.cumulativeHoldDuration = 0,
        !.lastHoldTick = 0,
        !.acutePainStartTime = NULL,
        !.calibrationFrames = <<>>,
        !.calibrationStartTime = NULL,
        !.baseline = <<>>,
        !.smaAngleHistory = <<>>,
        !.painEMA = 0,
        !.lastRepTimestamp = 0]

\* Date.now() while the frame stamped ts is processed: the wall clock and the
\* frame clock advance together
DateNow(ts) == ts

-----------------------------------------------------------------------------
(* Calibration.  A calibration frame is kept as the facial measurements    *)
(* computeBaseline reads from it: valid (the seven landmarks its test      *)
(* names are present and the inter-eye distance is non-zero), outer (the   *)
(* two outer-eye landmarks, which it reads without a test, are present)    *)
(* and the five ratios, in thousandths.                                    *)

DefaultBaseline == <<RInt(100), RInt(600), RInt(250), RInt(900), RInt(900)>>

ValidFaces(frames) == SelectSeq(frames, LAMBDA f : f.valid)

RECURSIVE SumRatio(_, _)
SumRatio(frames, k) ==
    IF frames = <<>> THEN 0 ELSE Head(frames).ratios[k] + SumRatio(Tail(frames), k)

\* computeBaseline dividing by the number of calibration frames
ComputeBaseline_OverAllFrames(frames) ==
    LET valid == ValidFaces(frames)
    IN IF Len(valid) = 0 THEN DefaultBaseline
       ELSE [k \in 1..5 |-> Rat(SumRatio(valid, k), Len(frames))]

ComputeBaseline(frames) ==
    LET valid == ValidFaces(frames)
        counts == Len(valid)
    IN IF counts = 0 THEN DefaultBaseline
       ELSE [k \in 1..5 |-> Rat(SumRatio(valid, k), counts)]

\* computeBaseline reads leftEyeOuter.x of a frame that passed its test:
\* a TypeError when that landmark is missing
ComputeBaselineThrows(frames) ==
    \E i \in 1..Len(frames) : frames[i].valid /\ ~frames[i].outer

\* the timestamp handleCalibration measures from: !this.calibrationStartTime
\* holds for null and for 0
CalibrationStart(e, ts) ==
    IF e.calibrationStartTime = NULL \/ e.calibrationStartTime = 0
    THEN ts ELSE e.calibrationStartTime

\* whether handleCalibration(landmarks, timestamp) ends by an exception
HandleCalibrationThrows(e, face, ts) ==
    /\ ts - CalibrationStart(e, ts) >= CALIBRATION_MS
    /\ ComputeBaselineThrows(Append(e.calibrationFrames, face))

\* handleCalibration(landmarks, timestamp) publishing the progress without
\* the cap of 100
HandleCalibration_Uncapped(e, face, ts) ==
    LET start == CalibrationStart(e, ts)
        elapsed == ts - start
        frames == Append(e.calibrationFrames, face)
        done == elapsed >= CALIBRATION_MS /\ ~ComputeBaselineThrows(frames)
    IN [e EXCEPT
          !.calibrationStartTime = start,
          !.calibrationFrames = frames,
          !.baseline = IF done THEN ComputeBaseline(frames) ELSE @,
          !.state.calibrationProgress = Rat(elapsed * 100, CALIBRATION_MS),
          !.state.isCalibrating = ~done,
          !.state.safetyLog.status = IF done THEN "Scanning" ELSE "Calibrating",
          !.state.safetyLog.ui_message =
              IF done THEN "Calibration complete. Starting analysis."
              ELSE "Please maintain a neutral expression..."]

\* handleCalibration(landmarks, timestamp), on the engine e
HandleCalibration(e, face, ts) ==
    LET start == CalibrationStart(e, ts)
        elapsed == ts - start
        frames == Append(e.calibrationFrames, face)
        done == elapsed >= CALIBRATION_MS /\ ~ComputeBaselineThrows(frames)
    IN [e EXCEPT
          !.calibrationStartTime = start,
          !.calibrationFrames = frames,
          !.baseline = IF done THEN ComputeBaseline(frames) ELSE @,
          !.state.calibrationProgress = RMin(RInt(100), Rat(elapsed * 100, CALIBRATION_MS)),
          !.state.isCalibrating = ~done,
          !.state.safetyLog.status = IF done THEN "Scanning" ELSE "Calibrating",
          !.state.safetyLog.ui_message =
              IF done THEN "Calibration complete. Starting analysis."
              ELSE "Please maintain a neutral expression..."]

-----------------------------------------------------------------------------
(* Phase detection and rep counting.  These operators work on a call       *)
(* context c = [e |-> the engine, rep |-> the counts handed to the rep     *)
(* subscribers in this call, form, stop |-> notification rounds of the     *)
(* form and stop subscribers in this call].                                *)

\* updatePhase(newPhase) committing the phase at once
UpdatePhase_Immediate(c, newPhase) ==
    LET count == IF newPhase = c.e.lastAttemptedPhase
                 THEN c.e.phaseFrameCount + 1 ELSE 1
    IN [c EXCEPT
          !.e.lastAttemptedPhase = newPhase,
          !.e.phaseFrameCount = count,
          !.e.state.phase = newPhase]

\* updatePhase(newPhase)
UpdatePhase(c, newPhase) ==
    LET count == IF newPhase = c.e.lastAttemptedPhase
                 THEN c.e.phaseFrameCount + 1 ELSE 1
    IN [c EXCEPT
          !.e.lastAttemptedPhase = newPhase,
          !.e.phaseFrameCount = count,
          !.e.state.phase = IF count >= MIN_PHASE_FRAMES THEN newPhase ELSE @]

\* countRep() without the phase set to COMPLETE
CountRep_KeepsPhase(c, ts) ==
    [c EXCEPT
       !.e.state.repCount = @ + 1,
       !.e.state.lastRepTime = DateNow(ts),
       !.rep = Append(@, c.e.state.repCount + 1),
       !.e.lastAttemptedPhase = "COMPLETE",
       !.e.phaseFrameCount = 0]

\* countRep()
CountRep(c, ts) ==
    [c EXCEPT
       !.e.state.repCount = @ + 1,
       !.e.state.lastRepTime = DateNow(ts),
       !.e.state.phase = "COMPLETE",
       !.rep = Append(@, c.e.state.repCount + 1),
       !.e.lastAttemptedPhase = "COMPLETE",
       !.e.phaseFrameCount = 0]

SetLastRepTimestamp(c, ts) == [c EXCEPT !.e.lastRepTimestamp = ts]

Below(a, threshold) == RLt(a, RInt(threshold + HYSTERESIS))

\* the upper test without the 10 degree hysteresis
Above_NoHysteresis(a, threshold) == RGt(a, RInt(threshold))

Above(a, threshold) == RGt(a, RInt(threshold - HYSTERESIS))

\* case 'pushup', 'tricep-dip'
CasePushup(c, a, ts) ==
    LET id == c.e.exerciseId
        phase == c.e.state.phase
    IN IF phase \in {"IDLE", "UP", "COMPLETE"}
       THEN IF Below(a, DownAngleThreshold(id)) THEN UpdatePhase(c, "DOWN") ELSE c
       ELSE IF phase = "DOWN"
       THEN IF Above(a, UpAngleThreshold(id))
            THEN UpdatePhase(SetLastRepTimestamp(CountRep(c, ts), ts), "UP")
            ELSE c
       ELSE c

\* case 'squat', 'lunge'
CaseSquat(c, a, ts) ==
    LET id == c.e.exerciseId
        phase == c.e.state.phase
    IN IF phase \in {"IDLE", "UP", "COMPLETE"}
       THEN IF Below(a, DownAngleThreshold(id)) THEN UpdatePhase(c, "DOWN") ELSE c
       ELSE IF phase = "DOWN"
       THEN IF Above(a, UpAngleThreshold(id))
            THEN UpdatePhase(CountRep(c, ts), "UP")
            ELSE c
       ELSE c

\* case 'bicep-curl'
CaseCurl(c, a, ts) ==
    LET id == c.e.exerciseId
        phase == c.e.state.phase
    IN IF phase \in {"IDLE", "DOWN", "COMPLETE"}
       THEN IF Below(a, UpAngleThreshold(id)) THEN UpdatePhase(c, "UP") ELSE c
       ELSE IF phase = "UP"
       THEN IF Above(a, DownAngleThreshold(id))
            THEN UpdatePhase(SetLastRepTimestamp(CountRep(c, ts), ts), "DOWN")
            ELSE c
       ELSE c

\* case 'shoulder-press', 'lateral-raise' and case 'jumping-jack'
CasePress(c, a, ts) ==
    LET id == c.e.exerciseId
        phase == c.e.state.phase
    IN IF phase \in {"IDLE", "DOWN", "COMPLETE"}
       THEN IF Above(a, UpAngleThreshold(id)) THEN UpdatePhase(c, "UP") ELSE c
       ELSE IF phase = "UP"
       THEN IF Below(a, DownAngleThreshold(id))
            THEN UpdatePhase(SetLastRepTimestamp(CountRep(c, ts), ts), "DOWN")
            ELSE c
       ELSE c

\* case 'plank' without the persistence count on entering HOLD
CasePlank_NoPersistence(c, a, ts) ==
    LET e == c.e
        straight == /\ e.state.formScore > PLANK_FORM_MIN
                    /\ RLt(RAbsDiff(a, RInt(180)), RInt(PLANK_ALIGN_MARGIN))
        target == IF straight THEN "HOLD" ELSE "IDLE"
        count == IF e.lastAttemptedPhase # target THEN 1 ELSE e.phaseFrameCount + 1
        c1 == [c EXCEPT !.e.lastAttemptedPhase = target, !.e.phaseFrameCount = count]
    IN IF straight /\ ~e.state.isHolding
       THEN [c1 EXCEPT !.e.state.isHolding = TRUE,
                       !.e.state.phase = "HOLD",
                       !.e.lastHoldTick = DateNow(ts)]
       ELSE IF ~straight /\ count >= MIN_PHASE_FRAMES /\ e.state.isHolding
       THEN [c1 EXCEPT !.e.state.isHolding = FALSE, !.e.state.phase = "IDLE"]
       ELSE c1

\* case 'plank'
CasePlank(c, a, ts) ==
    LET e == c.e
        isGoodForm == e.state.formScore > PLANK_FORM_MIN
        isAligned == RLt(RAbsDiff(a, RInt(180)), RInt(PLANK_ALIGN_MARGIN))
        holdNow == DateNow(ts)
        target == IF isGoodForm /\ isAligned THEN "HOLD" ELSE "IDLE"
        count == IF e.lastAttemptedPhase # target THEN 1 ELSE e.phaseFrameCount + 1
        c1 == [c EXCEPT !.e.lastAttemptedPhase = target, !.e.phaseFrameCount = count]
        delta == holdNow - e.lastHoldTick
        total == e.cumulativeHoldDuration + delta
        newCount == total \div 1000
    IN IF target = "HOLD"
       THEN IF count >= MIN_PHASE_FRAMES
            THEN IF ~e.state.isHolding
                 THEN [c1 EXCEPT !.e.state.isHolding = TRUE,
                                 !.e.state.phase = "HOLD",
                                 !.e.lastHoldTick = holdNow]
                 ELSE IF delta > 0
                 THEN IF newCount > e.state.repCount
                      THEN [c1 EXCEPT !.e.cumulativeHoldDuration = total,
                                      !.e.state.repCount = newCount,
                                      !.e.state.lastRepTime = holdNow,
                                      !.rep = Append(@, newCount),
                                      !.e.lastHoldTick = holdNow]
                      ELSE [c1 EXCEPT !.e.cumulativeHoldDuration = total,
                                      !.e.lastHoldTick = holdNow]
                 ELSE [c1 EXCEPT !.e.lastHoldTick = holdNow]
            ELSE c1
       ELSE IF count >= MIN_PHASE_FRAMES /\ e.state.isHolding
            THEN [c1 EXCEPT !.e.state.isHolding = FALSE, !.e.state.phase = "IDLE"]
            ELSE c1

\* detectPhaseTransition(currentAngle, timestamp): the switch on exerciseId
DetectPhaseTransition(c, a, ts) ==
    LET id == c.e.exerciseId
    IN IF id \in {"pushup", "tricep-dip"} THEN CasePushup(c, a, ts)
       ELSE IF id \in {"squat", "lunge"} THEN CaseSquat(c, a, ts)
       ELSE IF id = "bicep-curl" THEN CaseCurl(c, a, ts)
       ELSE IF id \in {"shoulder-press", "lateral-raise", "jumping-jack"}
            THEN CasePress(c, a, ts)
       ELSE IF id = "plank" THEN CasePlank(c, a, ts)
       ELSE CasePushup(c, a, ts)

-----------------------------------------------------------------------------
(* Pain escalation *)

\* the peak test without the squat and push-up case
IsPeakOfContraction_CurlOnly(e) ==
    /\ e.exerciseId = "bicep-curl"
    /\ RLt(e.state.currentAngle, RInt(UpAngleThreshold(e.exerciseId) + PEAK_MARGIN))

\* isPeakOfContraction()
IsPeakOfContraction(e) ==
    LET id == e.exerciseId
        currentAngle == e.state.currentAngle
    IN IF id = "bicep-curl"
       THEN RLt(currentAngle, RInt(UpAngleThreshold(id) + PEAK_MARGIN))
       ELSE IF id \in {"squat", "pushup"}
       THEN RLt(currentAngle, RInt(DownAngleThreshold(id) + PEAK_MARGIN))
       ELSE FALSE

\* the timer test that fires at 2.5 s sharp
AcutePainElapsed_AtLeast(start, ts) == ts - start >= ACUTE_PAIN_MS

\* timestamp - acutePainStartTime > 2500
AcutePainElapsed(start, ts) == ts - start > ACUTE_PAIN_MS

\* handleClinicalPainThresholds(analysis, timestamp); pain_score_raw in thousandths
HandleClinicalPainThresholds(c, analysis, ts) ==
    LET e == c.e
        painScoreRaw == analysis.pain_score_raw
        isPeak == IsPeakOfContraction(e)
        c1 == [c EXCEPT !.e.state.safetyLog.pain_level = RRound(Rat(painScoreRaw, 100))]
    IN IF painScoreRaw > PAIN_THRESHOLD_MILLI
       THEN IF isPeak /\ analysis.intensity_level # "Critical"
            THEN [c1 EXCEPT
                    !.e.state.safetyLog.status = "Effort Detected",
                    !.e.state.safetyLog.ui_message = "High effort detected. Keep breathing.",
                    !.e.acutePainStartTime = NULL]
            ELSE IF e.acutePainStartTime = NULL
            THEN [c1 EXCEPT
                    !.e.state.safetyLog.status = "PAIN ALERT",
                    !.e.state.safetyLog.ui_message = "Sudden muscle tension! Ease up.",
                    !.e.acutePainStartTime = ts]
            ELSE IF AcutePainElapsed(e.acutePainStartTime, ts)
            THEN [c1 EXCEPT
                    !.e.state.safetyLog.status = "PAIN ALERT",
                    !.e.state.safetyLog.ui_message = "Stop! Drop the weights",
                    !.e.state.safetyLog.system_command = "HALT_WORKOUT",
                    !.e.state.painAnalysis.recommended_action = "STOP_EXERCISE",
                    !.stop = @ + 1]
            ELSE [c1 EXCEPT
                    !.e.state.safetyLog.status = "PAIN ALERT",
                    !.e.state.safetyLog.ui_message = "Sudden muscle tension! Ease up."]
       ELSE [c1 EXCEPT
               !.e.state.safetyLog.status = "Scanning",
               !.e.state.safetyLog.ui_message = "Motion within safe comfort zones.",
               !.e.acutePainStartTime = NULL]

-----------------------------------------------------------------------------
(* processFrame *)

\* push with a cap: the array keeps its last `cap` entries
PushCapped(seq, x, cap) ==
    LET s == Append(seq, x) IN IF Len(s) > cap THEN Tail(s) ELSE s

RECURSIVE SumAbsDiffs(_, _)
SumAbsDiffs(h, i) ==
    IF i > Len(h) THEN ZERO
    ELSE RAdd(IF h[i] # UNRELIABLE /\ h[i - 1] # UNRELIABLE
              THEN RAbsDiff(h[i], h[i - 1]) ELSE ZERO,
              SumAbsDiffs(h, i + 1))

\* the mean, in degrees per second, of |h[i] - h[i-1]| / (deltaTimeMs / 1000)
\* over the pairs of the history with both angles reliable; 0 without such a pair
AverageVelocity(h, deltaTimeMs) ==
    LET n == Cardinality({i \in 2..Len(h) : h[i] # UNRELIABLE /\ h[i - 1] # UNRELIABLE})
        total == SumAbsDiffs(h, 2)
    IN IF n = 0 THEN ZERO ELSE Rat(total[1] * 1000, total[2] * deltaTimeMs * n)

Mean(s) == LET total == RSum(s) IN Rat(total[1], total[2] * Len(s))

\* the latching rule: the angle processFrame goes on with
LatchedAngle(e, primaryAngle, ts) ==
    IF primaryAngle = UNRELIABLE
       /\ ts - e.lastValidAngleTimestamp < LATCH_MS
       /\ e.state.currentAngle # ZERO
    THEN e.state.currentAngle
    ELSE primaryAngle

\* the velocity guard left out
IsGlitching_Never(e) == FALSE

IsGlitching(e) == RGt(e.state.angularVelocity, RInt(GLITCH_VELOCITY))

CooldownActive(e, ts) == ts - e.lastRepTimestamp < REP_COOLDOWN_MS

\* this.painEMA, in hundredths of the 0-100 scale, rounded to the nearest
NextPainEMA(painEMA, rawPainScore) ==
    (EMA_ALPHA_TENTHS * rawPainScore * 100 + (10 - EMA_ALPHA_TENTHS) * painEMA + 5) \div 10

\* lines 112-206 of processFrame: a frame analysed after calibration
AnalyseFrame(c, fr, ts) ==
    LET e == c.e
        deltaTimeMs == IF e.previousTimestamp # 0
                       THEN ts - e.previousTimestamp ELSE DEFAULT_DELTA_MS
        primaryAngle == LatchedAngle(e, fr.angle, ts)
        angleHistory == PushCapped(e.angleHistory, primaryAngle, ANGLE_HISTORY_MAX)
        angularVelocity == IF Len(angleHistory) >= 2
                           THEN AverageVelocity(angleHistory, deltaTimeMs)
                           ELSE e.state.angularVelocity
        smaAngleHistory == IF primaryAngle # UNRELIABLE
                           THEN PushCapped(e.smaAngleHistory, primaryAngle, SMA_WINDOW)
                           ELSE e.smaAngleHistory
        smoothedAngle == IF Len(smaAngleHistory) > 0 THEN Mean(smaAngleHistory)
                         ELSE UNRELIABLE
        analysis == PainAnalysisOf(fr.pain)
        painEMA == NextPainEMA(e.painEMA, fr.pain)
        c1 == [c EXCEPT
                 !.e.lastValidAngleTimestamp = IF fr.angle = UNRELIABLE THEN @ ELSE ts,
                 !.e.angleHistory = angleHistory,
                 !.e.smaAngleHistory = smaAngleHistory,
                 !.e.painEMA = painEMA,
                 !.e.state.angularVelocity = angularVelocity,
                 !.e.state.currentAngle = smoothedAngle,
                 !.e.state.symmetryScore = fr.sym,
                 !.e.state.jointStress = <<fr.bad, fr.warn>>,
                 !.e.state.formScore = CalculateFormScore(fr.bad, fr.warn, fr.sym),
                 !.e.state.painScore = RRound(Rat(painEMA, 100)),
                 !.e.state.painAnalysis = [analysis EXCEPT !.pain_score_raw = painEMA],
                 !.e.state.safetyLog =
                     [DefaultSafetyLog(fr.pain) EXCEPT !.pain_level = RRound(Rat(painEMA, 100))]]
        c2 == HandleClinicalPainThresholds(c1, analysis, ts)
        c3 == IF smoothedAngle # UNRELIABLE /\ smoothedAngle # ZERO
                 /\ ~IsGlitching(c2.e) /\ ~CooldownActive(c2.e, ts)
              THEN DetectPhaseTransition(c2, smoothedAngle, ts)
              ELSE c2
    IN [c3 EXCEPT
          !.form = @ + 1,
          !.e.hasPreviousLandmarks = TRUE,
          !.e.previousTimestamp = ts]

\* the entry test without the landmark count
Rejected_UnknownOnly(e, fr) == ~ExerciseKnown(e.exerciseId)

\* whether processFrame returns at its first line
Rejected(e, fr) == ~ExerciseKnown(e.exerciseId) \/ fr.len < MIN_LANDMARKS

\* processFrame without the return after handleCalibration
ProcessFrame_NoGate(e, fr, ts) ==
    LET c == [e |-> e, rep |-> <<>>, form |-> 0, stop |-> 0, threw |-> FALSE]
    IN IF Rejected(e, fr) THEN c
       ELSE IF e.state.isCalibrating
       THEN AnalyseFrame([c EXCEPT !.e = HandleCalibration(e, fr.face, ts)], fr, ts)
       ELSE AnalyseFrame(c, fr, ts)

\* processFrame that keeps sampling the face after calibration
ProcessFrame_KeepsCalibrating(e, fr, ts) ==
    LET c == [e |-> e, rep |-> <<>>, form |-> 0, stop |-> 0, threw |-> FALSE]
    IN IF Rejected(e, fr) THEN c
       ELSE IF e.state.isCalibrating
       THEN [c EXCEPT !.e = HandleCalibration(e, fr.face, ts)]
       ELSE AnalyseFrame([c EXCEPT !.e = HandleCalibration(e, fr.face, ts)], fr, ts)

\* processFrame(landmarks, timestamp) on engine e: the call's context afterwards
ProcessFrame(e, fr, ts) ==
    LET c == [e |-> e, rep |-> <<>>, form |-> 0, stop |-> 0, threw |-> FALSE]
    IN IF Rejected(e, fr) THEN c
       ELSE IF e.state.isCalibrating
       THEN [c EXCEPT !.e = HandleCalibration(e, fr.face, ts),
                      !.threw = HandleCalibrationThrows(e, fr.face, ts)]
       ELSE AnalyseFrame(c, fr, ts)

-----------------------------------------------------------------------------
(* The observer: bookkeeping over the calls made and the states returned,  *)
(* kept beside the engine and never read by it.                            *)

HighPain(p) == p * 100 > PAIN_THRESHOLD_MILLI

\* the peak-exertion zone of the exercises that have one: the bottom of a
\* squat or push-up, the top of a curl, with a 15 degree margin
PeakZone(id, angle) ==
    \/ id = "bicep-curl" /\ RLt(angle, RInt(UpAngleThreshold(id) + 15))
    \/ id \in {"squat", "pushup"} /\ RLt(angle, RInt(DownAngleThreshold(id) + 15))

NewMonitor ==
    [highSince |-> NULL,       \* first frame of the current run of analysed frames above 8.5
     acuteSince |-> NULL,      \* the same, for frames above 8.5 and away from the peak zone
     acuteSubs |-> 0,          \* stop subscribers registered when that run began
     acuteStops |-> 0,         \* stop notification rounds during that run
     interrupted |-> FALSE,    \* a frame at or below 8.5 has cut a run short of 2.5 s
     effortCleared |-> FALSE,  \* an effort frame has arrived while the pain timer ran
     lastRepAt |-> NULL,       \* timestamp of the last frame that counted a rep
     repGap |-> NULL,          \* time between the last two frames that counted a rep
     cand |-> "none",          \* phase that detection indicated on the last frame
     candRun |-> 0,            \* consecutive analysed frames that indicated it
     commitRun |-> NULL,       \* candRun of the new phase at the last phase change
     firstAccepted |-> NULL,   \* timestamp of the first accepted frame
     calCount |-> 0,           \* calibration frames with every facial landmark
     calSums |-> <<0, 0, 0, 0, 0>>,  \* and the sums of their five ratios
     plankRun |-> 0,           \* plank: run of phase-detected frames that pass (+) or fail (-)
     holdTick |-> 0,           \* plank: stamp of the last frame that confirmed the hold
     holdMs |-> 0,             \* plank: time between such frames, added up
     validAngles |-> <<>>,     \* the last seven primary angles that were not -1
     armed |-> 0]              \* frames since the last rep on which detection indicated the
                               \* phase that opens the cycle, counted up to MIN_PHASE_FRAMES

\* after the analysed frame stamped ts, with raw pain p (tenths), that took the
\* engine from e0 to c.e
MonitorFrame(m, e0, c, p, ts) ==
    LET high == HighPain(p)
        peak == PeakZone(c.e.exerciseId, c.e.state.currentAngle)
        acute == high /\ ~peak
        counted == c.e.state.repCount > e0.state.repCount
        \* the phase handed to updatePhase, or COMPLETE when countRep ran
        cand == IF counted /\ c.e.state.phase = "COMPLETE" THEN "COMPLETE"
                ELSE IF <<c.e.lastAttemptedPhase, c.e.phaseFrameCount>>
                          # <<e0.lastAttemptedPhase, e0.phaseFrameCount>>
                THEN c.e.lastAttemptedPhase
                ELSE "none"
        run == IF cand = "none" THEN 0
               ELSE IF cand = m.cand THEN m.candRun + 1 ELSE 1
        \* plank: whether phase detection ran on the frame, whether the frame
        \* shows a straight body in good form, and the run of such frames
        plank == c.e.exerciseId = "plank"
        detected == /\ plank
                    /\ c.e.state.currentAngle \notin {UNRELIABLE, ZERO}
                    /\ ~IsGlitching(c.e) /\ ~CooldownActive(c.e, ts)
        straight == /\ c.e.state.formScore > PLANK_FORM_MIN
                    /\ RLt(RAbsDiff(c.e.state.currentAngle, RInt(180)),
                           RInt(PLANK_ALIGN_MARGIN))
        plankRun == IF ~detected THEN m.plankRun
                    ELSE IF straight THEN (IF m.plankRun > 0 THEN m.plankRun + 1 ELSE 1)
                    ELSE (IF m.plankRun < 0 THEN m.plankRun - 1 ELSE -1)
        confirmed == detected /\ straight /\ plankRun >= MIN_PHASE_FRAMES
        held == confirmed /\ e0.state.phase = "HOLD" /\ ts > m.holdTick
    IN [highSince |-> IF ~high THEN NULL
                      ELSE IF m.highSince = NULL THEN ts ELSE m.highSince,
        acuteSince |-> IF ~acute THEN NULL
                       ELSE IF m.acuteSince = NULL THEN ts ELSE m.acuteSince,
        acuteSubs |-> IF ~acute THEN 0
                      ELSE IF m.acuteSince = NULL THEN e0.stopCallbacks ELSE m.acuteSubs,
        acuteStops |-> IF ~acute THEN 0 ELSE m.acuteStops + c.stop,
        interrupted |-> m.interrupted
                        \/ (~high /\ m.highSince # NULL /\ ts - m.highSince <= ACUTE_PAIN_MS),
        effortCleared |-> m.effortCleared
                          \/ (high /\ peak /\ IntensityLevel(p) # "Critical"
                              /\ e0.acutePainStartTime # NULL),
        lastRepAt |-> IF counted THEN ts ELSE m.lastRepAt,
        repGap |-> IF counted /\ m.lastRepAt # NULL THEN ts - m.lastRepAt ELSE m.repGap,
        cand |-> cand,
        candRun |-> run,
        commitRun |-> IF c.e.state.phase # e0.state.phase THEN run ELSE m.commitRun,
        firstAccepted |-> m.firstAccepted,
        calCount |-> m.calCount,
        calSums |-> m.calSums,
        plankRun |-> plankRun,
        holdTick |-> IF confirmed THEN ts ELSE m.holdTick,
        holdMs |-> IF held THEN m.holdMs + (ts - m.holdTick) ELSE m.holdMs,
        validAngles |-> IF c.e.lastValidAngleTimestamp = ts
                        THEN PushCapped(m.validAngles,
                                        c.e.angleHistory[Len(c.e.angleHistory)],
                                        SMA_WINDOW)
                        ELSE m.validAngles,
        armed |-> IF counted THEN 0
                  ELSE IF cand = (IF c.e.exerciseId \in UpFirstExercises THEN "UP" ELSE "DOWN")
                          /\ m.armed < MIN_PHASE_FRAMES
                  THEN m.armed + 1
                  ELSE m.armed]

\* after the frame stamped ts, with facial measurements face, that the engine
\* accepted while calibrating
MonitorCalibration(m, face, ts) ==
    LET complete == face.valid /\ face.outer
    IN [m EXCEPT
          !.firstAccepted = IF @ = NULL THEN ts ELSE @,
          !.calCount = IF complete THEN @ + 1 ELSE @,
          !.calSums = IF complete THEN [k \in 1..5 |-> @[k] + face.ratios[k]] ELSE @]

-----------------------------------------------------------------------------
(* Actions.  env holds the session's inputs: exs (exercise ids), firsts    *)
(* (timestamps of the first frame), dts (gaps between frames), lens        *)
(* (landmark counts), angles, pains, faces, forms (<<bad, warn, symmetry>>)*)
(* and the bounds maxFrames, maxShort (frames of fewer than 33 landmarks), *)
(* maxResets, maxSubs; half > 0 makes the angle follow a sweep of that     *)
(* many frames each way, cycles times over.                                *)

Stamps == IF now = NULL THEN env.firsts ELSE {now + d : d \in env.dts}

\* frames a session of period dt spends calibrating: the one that starts the
\* clock, those before 3 s have passed, and the one that ends calibration
CalFrames(dt) == (CALIBRATION_MS + dt - 1) \div dt + 1

\* the elbow angle of frame number pos of a sweep 170 -> 60 -> 170 that takes
\* half frames each way, repeated for the given number of cycles and then held
SweepAngle(pos, half, cycles) ==
    LET i == pos % (2 * half)
    IN IF pos < 0 \/ pos >= 2 * half * cycles THEN RInt(170)
       ELSE IF i <= half THEN Rat(170 * half - 110 * i, half)
       ELSE Rat(60 * half + 110 * (i - half), half)

\* position in the sweep of the frame fed next, given the period dt
SweepPos(dt) == nframes - CalFrames(dt)

AngleInputs ==
    IF env.half > 0
    THEN {SweepAngle(SweepPos(d), env.half, env.cycles) : d \in env.dts}
    ELSE env.angles

FrameInputs ==
    {[len |-> n, angle |-> a, pain |-> p, face |-> f,
      bad |-> q[1], warn |-> q[2], sym |-> q[3]] :
        n \in env.lens, a \in AngleInputs, p \in env.pains,
        f \in env.faces, q \in env.forms}

Outcome(e, fr) ==
    IF Rejected(e, fr) THEN "rejected"
    ELSE IF e.state.isCalibrating THEN "calibrated" ELSE "analysed"

\* callbacks.forEach(cb => cb(arg)) over n registered callbacks, reversed
ForEach_Reversed(n, kind, arg) ==
    [i \in 1..n |-> [kind |-> kind, sub |-> n + 1 - i, arg |-> arg]]

\* callbacks.forEach(cb => cb(arg)) over n registered callbacks: the calls
\* made, the callbacks numbered in the order they were pushed
ForEach(n, kind, arg) ==
    [i \in 1..n |-> [kind |-> kind, sub |-> i, arg |-> arg]]

\* the callbacks invoked during the processFrame call that took e0 to c.e:
\* stop callbacks (handleClinicalPainThresholds), then rep callbacks
\* (countRep or the plank tick), then form callbacks
Calls(e0, c) ==
    (IF c.stop > 0 THEN ForEach(e0.stopCallbacks, "stop", NULL) ELSE <<>>)
    \o (IF c.rep # <<>> THEN ForEach(e0.repCallbacks, "rep", c.rep[1]) ELSE <<>>)
    \o (IF c.form > 0 THEN ForEach(e0.formCallbacks, "form", c.e.state.formScore) ELSE <<>>)

ProcessFrameStep ==
    /\ nframes < env.maxFrames
    /\ \E ts \in Stamps, fr \in FrameInputs :
          LET c == ProcessFrame(eng, fr, ts)
              outcome == Outcome(eng, fr)
              short == fr.len < MIN_LANDMARKS
          IN /\ short => nshort < env.maxShort
             /\ eng' = c.e
             /\ now' = ts
             /\ last' = [op |-> "processFrame", outcome |-> outcome, len |-> fr.len,
                         rep |-> c.rep, form |-> c.form, stop |-> c.stop,
                         threw |-> c.threw, calls |-> Calls(eng, c)]
             /\ mon' = IF outcome = "analysed"
                       THEN MonitorFrame(mon, eng, c, fr.pain, ts)
                       ELSE IF outcome = "calibrated"
                       THEN MonitorCalibration(mon, fr.face, ts)
                       ELSE mon
             /\ nshort' = IF short THEN nshort + 1 ELSE nshort
             /\ fresh' = IF nresets = 0 THEN c.e ELSE ProcessFrame(fresh, fr, ts).e
    /\ nframes' = nframes + 1
    /\ UNCHANGED <<env, nresets, cam, call>>

NoCall(op) ==
    [op |-> op, outcome |-> "none", len |-> 0, rep |-> <<>>, form |-> 0, stop |-> 0,
     threw |-> FALSE, calls |-> <<>>]

ResetStep ==
    /\ nresets < env.maxResets
    /\ eng' = ResetEngine(eng)
    /\ last' = NoCall("reset")
    /\ mon' = [NewMonitor EXCEPT !.plankRun = mon.plankRun]
    /\ fresh' = [NewEngine(eng.exerciseId) EXCEPT
                   !.repCallbacks = eng.repCallbacks,
                   !.formCallbacks = eng.formCallbacks,
                   !.stopCallbacks = eng.stopCallbacks]
    /\ nresets' = nresets + 1
    /\ UNCHANGED <<now, env, nframes, nshort, cam, call>>

OnRepStep ==
    /\ eng.repCallbacks < env.maxSubs
    /\ eng' = [eng EXCEPT !.repCallbacks = @ + 1]
    /\ fresh' = [fresh EXCEPT !.repCallbacks = @ + 1]
    /\ last' = NoCall("onRep")
    /\ UNCHANGED <<now, env, nframes, nshort, nresets, mon, cam, call>>

OnFormUpdateStep ==
    /\ eng.formCallbacks < env.maxSubs
    /\ eng' = [eng EXCEPT !.formCallbacks = @ + 1]
    /\ fresh' = [fresh EXCEPT !.formCallbacks = @ + 1]
    /\ last' = NoCall("onFormUpdate")
    /\ UNCHANGED <<now, env, nframes, nshort, nresets, mon, cam, call>>

OnStopRequestStep ==
    /\ eng.stopCallbacks < env.maxSubs
    /\ eng' = [eng EXCEPT !.stopCallbacks = @ + 1]
    /\ fresh' = [fresh EXCEPT !.stopCallbacks = @ + 1]
    /\ last' = NoCall("onStopRequest")
    /\ UNCHANGED <<now, env, nframes, nshort, nresets, mon, cam, call>>

\* a new engine in a session with the inputs and bounds of E
InitEngine(E) ==
    /\ env = E
    /\ \E id \in E.exs : eng = NewEngine(id)
    /\ fresh = eng
    /\ now = NULL
    /\ last = NoCall("new")
    /\ nframes = 0
    /\ nshort = 0
    /\ nresets = 0
    /\ mon = NewMonitor

\* WebcamCanvas before any canplay event
CameraOff ==
    [clock |-> 0,               \* performance.now()
     isProcessing |-> FALSE,    \* isProcessingRef.current
     lastProcessingTime |-> 0,  \* lastProcessingTimeRef.current
     ready |-> TRUE,            \* videoRef, poseRef set and readyState >= 2
     loops |-> <<>>,            \* per started loop: "scheduled", "sending", "ended"
     inFlight |-> 0,            \* pose.send promises not yet settled
     sendAt |-> NULL,           \* clock at the last pose.send
     prevSendAt |-> NULL,       \* clock at the one before
     deferred |-> FALSE]        \* a callback has found isProcessing set

NoFunctionCall == [fn |-> "none", done |-> TRUE]

\* a session of the engine alone
InitWith(E) ==
    /\ InitEngine(E)
    /\ cam = CameraOff
    /\ call = NoFunctionCall

NeutralFace == [valid |-> TRUE, outer |-> TRUE, ratios |-> <<100, 600, 250, 900, 900>>]

GoodForm == <<0, 0, 100>>

\* a face with other proportions, a frame without facial landmarks, and a
\* frame that has the seven landmarks computeBaseline tests but no outer eyes
WideFace == [valid |-> TRUE, outer |-> TRUE, ratios |-> <<130, 640, 200, 870, 910>>]

BlankFace == [valid |-> FALSE, outer |-> FALSE, ratios |-> <<0, 0, 0, 0, 0>>]

NoOuterFace == [valid |-> TRUE, outer |-> FALSE, ratios |-> <<100, 600, 250, 900, 900>>]

-----------------------------------------------------------------------------
(* SpecPain: sessions of slow frames (1.25 s apart, so that a run of high  *)
(* frames lasts 2.5 s exactly at its third frame) in which the caller may  *)
(* register a stop callback.  Either the pain score is 8.0 or 8.6 and the  *)
(* angle inside or outside the peak-exertion zone, or the score is 8.6 or  *)
(* 9.5 (Critical) and the angle stays inside the zone.                     *)

PainEnv(pains, angles) ==
    [exs |-> {"pushup", "squat", "bicep-curl"},
     firsts |-> {1000},
     dts |-> {1250},
     lens |-> {MIN_LANDMARKS},
     angles |-> angles,
     pains |-> pains,
     faces |-> {NeutralFace},
     forms |-> {GoodForm},
     half |-> 0,
     cycles |-> 0,
     maxFrames |-> MaxFramesPain,
     maxShort |-> 0,
     maxResets |-> 0,
     maxSubs |-> MaxSubscribers]

InitPain ==
    \/ InitWith(PainEnv({80, 86}, {RInt(40), RInt(170)}))
    \/ InitWith(PainEnv({86, 95}, {RInt(40)}))

NextPain == ProcessFrameStep \/ OnStopRequestStep

SpecPain == InitPain /\ [][NextPain]_vars

-----------------------------------------------------------------------------
(* SpecRep: sessions at the capture loop's 40 ms per frame in which every  *)
(* frame's primary angle is low (40) or high (170).                        *)

RepEnv(ids) ==
    [exs |-> ids,
     firsts |-> {40},
     dts |-> {40},
     lens |-> {MIN_LANDMARKS},
     angles |-> {RInt(40), RInt(170)},
     pains |-> {0},
     faces |-> {NeutralFace},
     forms |-> {GoodForm},
     half |-> 0,
     cycles |-> 0,
     maxFrames |-> MaxFramesRep,
     maxShort |-> 0,
     maxResets |-> 0,
     maxSubs |-> 0]

InitRep == InitWith(RepEnv({"squat"}))

NextRep == ProcessFrameStep

SpecRep == InitRep /\ [][NextRep]_vars

-----------------------------------------------------------------------------
(* SpecSweep: push-up sessions that, once calibrated, replay the elbow     *)
(* sweep 170 -> 60 -> 170 at a fixed frame period and then repeat the      *)
(* final frame.                                                            *)

SweepPeriods == {16, 33, 40, 100}

SweepHalves == {9, 11, 17, 19, 27, 42}

SweepEnv(half, dt, cycles) ==
    [exs |-> {"pushup"},
     firsts |-> {dt},
     dts |-> {dt},
     lens |-> {MIN_LANDMARKS},
     angles |-> {},
     pains |-> {0},
     faces |-> {NeutralFace},
     forms |-> {GoodForm},
     half |-> half,
     cycles |-> cycles,
     maxFrames |-> CalFrames(dt) + 2 * half * cycles + 1 + MaxRepeats,
     maxShort |-> 0,
     maxResets |-> 0,
     maxSubs |-> 0]

InitSweep ==
    \E half \in SweepHalves, dt \in SweepPeriods, cycles \in 1..MaxCycles :
        /\ 2 * half * dt > REP_COOLDOWN_MS
        /\ InitWith(SweepEnv(half, dt, cycles))

NextSweep == ProcessFrameStep

SpecSweep == InitSweep /\ [][NextSweep]_vars

-----------------------------------------------------------------------------
(* Spec: the engine under every operation of its interface.  A session is  *)
(* one of: slow frames of high pain with subscribers coming and going      *)
(* (reaches the halt); slow frames of low or high angle with reset()       *)
(* (reaches stale debounce memory); an engine built for an exercise id the *)
(* catalog does not have; a push-up sweep at 40 ms per frame (reaches the  *)
(* rep cooldown).  Frames of 32 landmarks may arrive anywhere.             *)

HaltEnv ==
    [exs |-> {"pushup"},
     firsts |-> {1000},
     dts |-> {1250},
     lens |-> {MIN_LANDMARKS - 1, MIN_LANDMARKS},
     angles |-> {RInt(170)},
     pains |-> {86},
     faces |-> {NeutralFace},
     forms |-> {GoodForm},
     half |-> 0,
     cycles |-> 0,
     maxFrames |-> MaxFramesGen,
     maxShort |-> MaxShortFrames,
     maxResets |-> 0,
     maxSubs |-> MaxSubscribers]

ResetEnv ==
    [HaltEnv EXCEPT
       !.angles = {RInt(40), RInt(170)},
       !.pains = {0},
       !.lens = {MIN_LANDMARKS},
       !.maxShort = 0,
       !.maxResets = MaxResets,
       !.maxSubs = 0]

UnknownEnv ==
    [HaltEnv EXCEPT !.exs = {"zumba"}, !.maxSubs = 0]

CooldownEnv ==
    [SweepEnv(17, 40, 1) EXCEPT
       !.lens = {MIN_LANDMARKS - 1, MIN_LANDMARKS},
       !.maxShort = MaxShortFrames,
       !.maxFrames = @ + MaxShortFrames]

Init == \E E \in {HaltEnv, ResetEnv, UnknownEnv, CooldownEnv} : InitWith(E)

Next ==
    \/ ProcessFrameStep
    \/ ResetStep
    \/ OnRepStep
    \/ OnFormUpdateStep
    \/ OnStopRequestStep

Spec == Init /\ [][Next]_vars

-----------------------------------------------------------------------------
(* Claims about the pain escalation, under SpecPain *)

Halted == eng.state.safetyLog.system_command = "HALT_WORKOUT"

Analysed == last.op = "processFrame" /\ last.outcome = "analysed"

\* the raw pain score (tenths) of the frame just analysed: pain_level as published
FramePain == eng.state.safetyLog.pain_level

\* C1: once the raw pain score has been above 8.5, away from the peak zone, on
\* every analysed frame for more than 2.5 s, the state shows HALT_WORKOUT and
\* the stop subscribers registered when the episode began have been invoked
\* exactly once in it.
C1_HaltExactlyOncePerEpisode ==
    (mon.acuteSince # NULL /\ now - mon.acuteSince > ACUTE_PAIN_MS)
        => (Halted /\ (mon.acuteSubs > 0 => mon.acuteStops = 1))

\* C2: a state that shows HALT_WORKOUT is followed, unless by reset(), by a
\* state that shows HALT_WORKOUT.
C2_HaltIsTerminal ==
    [][(Halted /\ last'.op # "reset") => eng'.state.safetyLog.system_command = "HALT_WORKOUT"]_vars

\* C3: a frame at or below 8.5 clears the pain timer and emits no halt, and a
\* halt is emitted only on a frame that ends a run of analysed frames, all
\* above 8.5, that spans more than 2.5 s.
C3_LowFrameResetsTimer ==
    /\ (Analysed /\ ~HighPain(FramePain))
          => (eng.acutePainStartTime = NULL /\ last.stop = 0 /\ ~Halted)
    /\ (last.stop > 0 \/ Halted)
          => (mon.highSince # NULL /\ now - mon.highSince > ACUTE_PAIN_MS)

\* a run cut short by a low frame, and the run after it at 2.5 s sharp: no halt
C3_Witness ==
    /\ mon.interrupted /\ Analysed
    /\ mon.highSince # NULL /\ now - mon.highSince = ACUTE_PAIN_MS
    /\ eng.acutePainStartTime = mon.highSince
    /\ ~Halted

\* C4 as stated: for squat, push-up and bicep-curl a frame above 8.5 with the
\* smoothed angle in the peak zone leaves the pain timer cleared and emits no
\* halt, whatever its score.
C4_PeakFrameIsEffort ==
    (Analysed /\ HighPain(FramePain)
       /\ PeakZone(eng.exerciseId, eng.state.currentAngle))
        => (eng.acutePainStartTime = NULL /\ last.stop = 0 /\ ~Halted)

\* C4 amended: the same for a frame whose score is above 8.5 and at most 9
\* (intensity not Critical); such a frame is reported as effort.
C4_NonCriticalPeakFrameIsEffort ==
    (Analysed /\ HighPain(FramePain) /\ IntensityLevel(FramePain) # "Critical"
       /\ PeakZone(eng.exerciseId, eng.state.currentAngle))
        => (/\ eng.acutePainStartTime = NULL
            /\ last.stop = 0
            /\ ~Halted
            /\ eng.state.safetyLog.status = "Effort Detected")

C4_Witness ==
    /\ Analysed /\ HighPain(FramePain) /\ IntensityLevel(FramePain) # "Critical"
    /\ PeakZone(eng.exerciseId, eng.state.currentAngle)
    /\ mon.effortCleared
    /\ eng.acutePainStartTime = NULL

-----------------------------------------------------------------------------
(* Claims about the rep state machine: C6 under Spec, C7 and C8 under      *)
(* SpecRep                                                                 *)

CyclePhaseChanges ==
    {<<"IDLE", "DOWN">>, <<"DOWN", "UP">>, <<"UP", "COMPLETE">>, <<"COMPLETE", "IDLE">>}

\* C6: for push-up, tricep-dip, squat and lunge, a processFrame call that
\* changes the committed phase changes it along IDLE -> DOWN -> UP ->
\* COMPLETE -> IDLE.
C6_PhaseFollowsCycle ==
    [][(/\ eng.exerciseId \in {"pushup", "tricep-dip", "squat", "lunge"}
        /\ last'.op = "processFrame"
        /\ eng'.state.phase # eng.state.phase)
          => <<eng.state.phase, eng'.state.phase>> \in CyclePhaseChanges]_vars

\* C7: two frames that each count a rep are at least 850 ms apart.
C7_NoRepInsideCooldown ==
    mon.repGap # NULL => mon.repGap >= REP_COOLDOWN_MS

\* C8: whenever the committed phase has changed, the new phase had been the
\* candidate on at least MIN_PHASE_FRAMES consecutive analysed frames.
C8_CommitAfterConsecutiveCandidates ==
    mon.commitRun # NULL => mon.commitRun >= MIN_PHASE_FRAMES

-----------------------------------------------------------------------------
(* Claims about the push-up sweep, under SpecSweep *)

SweepPeriod == CHOOSE d \in env.dts : TRUE

\* position in the sweep of the frame fed last
LastSweepPos == nframes - 1 - CalFrames(SweepPeriod)

\* repCount is the number of completed cycles at the last frame of each
\* cycle, and stays there while the final frame is repeated
RepPerCycle ==
    /\ (LastSweepPos >= 0 /\ LastSweepPos <= 2 * env.half * env.cycles
          /\ LastSweepPos % (2 * env.half) = 0)
         => eng.state.repCount = LastSweepPos \div (2 * env.half)
    /\ LastSweepPos > 2 * env.half * env.cycles
         => eng.state.repCount = env.cycles

\* C5 as stated: in every sweep whose cycle lasts more than 850 ms, repCount
\* has grown by one at the end of each cycle and repeating the final frame
\* does not change it.
C5_OneRepPerCycle == RepPerCycle

\* C5 amended: the same in the sweeps that take at least 17 frames each way
\* and whose cycle lasts at least 1300 ms.
C5_OneRepPerSlowCycle ==
    (env.half >= 17 /\ 2 * env.half * SweepPeriod >= 1300) => RepPerCycle

C5_Witness ==
    /\ env.half = 17 /\ SweepPeriod = 40 /\ env.cycles = MaxCycles
    /\ LastSweepPos = 2 * env.half * env.cycles + MaxRepeats
    /\ eng.state.repCount = env.cycles

-----------------------------------------------------------------------------
(* Claims about reset() and rejected frames, under Spec *)

\* C9: right after reset() the engine equals a newly constructed engine for
\* the same exercise with the same subscribers, and from then on it shows the
\* phase and rep count that engine shows on the same frames.
C9_ResetRestoresFreshEngine ==
    /\ last.op = "reset" => eng = fresh
    /\ nresets > 0 => /\ eng.state.phase = fresh.state.phase
                      /\ eng.state.repCount = fresh.state.repCount

\* C10: a processFrame call with fewer than 33 landmarks, or on an engine
\* whose exercise id the catalog does not have, leaves every field of the
\* engine and its state as it was and notifies no subscriber.
C10_RejectedFrameIsNoOp ==
    [][(/\ last'.op = "processFrame"
        /\ (last'.len < MIN_LANDMARKS \/ eng.exerciseId \notin KnownExercises))
          => (/\ eng' = eng
              /\ mon' = mon
              /\ last'.rep = <<>> /\ last'.form = 0 /\ last'.stop = 0)]_vars

ShortFrame == last.op = "processFrame" /\ last.len < MIN_LANDMARKS

\* a short frame that arrived while the halt was showing and subscribers listened
C10_Witness ==
    /\ ShortFrame /\ Halted
    /\ eng.repCallbacks > 0 /\ eng.formCallbacks > 0 /\ eng.stopCallbacks > 0

\* short frames in the other conditions of the engine
C10_RejectedCalibrating == ShortFrame /\ eng.state.isCalibrating /\ eng.calibrationStartTime # NULL

C10_RejectedInCooldown ==
    ShortFrame /\ eng.lastRepTimestamp > 0 /\ now - eng.lastRepTimestamp < REP_COOLDOWN_MS

C10_RejectedAnalysing == ShortFrame /\ ~eng.state.isCalibrating /\ eng.state.phase = "DOWN"

C10_RejectedUnknownExercise ==
    last.op = "processFrame" /\ last.len = MIN_LANDMARKS /\ eng.exerciseId \notin KnownExercises

-----------------------------------------------------------------------------
(* SpecCal: sessions of frames 1.5 s apart whose faces differ.  The first  *)
(* frame is stamped 500 (calibration then lasts to the third frame, 3 s    *)
(* later exactly) or 0.                                                    *)

CalEnv(firsts, faces, maxShort, maxResets) ==
    [exs |-> {"pushup"},
     firsts |-> firsts,
     dts |-> {1500},
     lens |-> {MIN_LANDMARKS - 1, MIN_LANDMARKS},
     angles |-> {RInt(170)},
     pains |-> {0},
     faces |-> faces,
     forms |-> {GoodForm},
     half |-> 0,
     cycles |-> 0,
     maxFrames |-> MaxFramesCal,
     maxShort |-> maxShort,
     maxResets |-> maxResets,
     maxSubs |-> 0]

InitCal ==
    \/ InitWith(CalEnv({500}, {NeutralFace, WideFace, BlankFace}, MaxShortFrames, MaxResets))
    \/ InitWith(CalEnv({500}, {BlankFace, NoOuterFace}, 0, 0))
    \/ InitWith(CalEnv({0}, {NeutralFace}, MaxShortFrames, 0))

NextCal == ProcessFrameStep \/ ResetStep

SpecCal == InitCal /\ [][NextCal]_vars

-----------------------------------------------------------------------------
(* SpecPlank: plank sessions.  Frames come 500 ms apart with a straight    *)
(* body and good or bad form, or with good form and a straight or bent     *)
(* body; or 100 ms apart with the measured angle jumping between 180 and   *)
(* 60, fast enough for the glitch filter to skip phase detection.          *)

BadForm == <<3, 0, 50>>

PlankEnv(dt, angles, forms, maxFrames, maxResets) ==
    [exs |-> {"plank"},
     firsts |-> {1000},
     dts |-> {dt},
     lens |-> {MIN_LANDMARKS},
     angles |-> angles,
     pains |-> {0},
     faces |-> {NeutralFace},
     forms |-> forms,
     half |-> 0,
     cycles |-> 0,
     maxFrames |-> maxFrames,
     maxShort |-> 0,
     maxResets |-> maxResets,
     maxSubs |-> 0]

InitPlank ==
    \/ InitWith(PlankEnv(500, {RInt(180)}, {GoodForm, BadForm}, MaxFramesPlank, MaxResets))
    \/ InitWith(PlankEnv(500, {RInt(180), RInt(120)}, {GoodForm}, MaxFramesPlankBent, 0))
    \/ InitWith(PlankEnv(100, {RInt(180), RInt(60)}, {GoodForm}, MaxFramesPlankFast, 0))

NextPlank == ProcessFrameStep \/ ResetStep

SpecPlank == InitPlank /\ [][NextPlank]_vars

-----------------------------------------------------------------------------
(* SpecSubs: a push-up session of one scripted repetition and a plank      *)
(* session held in good form, to which the caller adds rep and form        *)
(* subscribers at any point.                                               *)

InitSubs ==
    \/ InitWith([SweepEnv(17, 40, 1) EXCEPT !.maxSubs = MaxListeners])
    \/ InitWith([PlankEnv(500, {RInt(180)}, {GoodForm}, MaxFramesPlankBent, 0) EXCEPT
                    !.lens = {MIN_LANDMARKS - 1, MIN_LANDMARKS},
                    !.maxShort = MaxShortFrames,
                    !.maxSubs = MaxListeners])

NextSubs == ProcessFrameStep \/ OnRepStep \/ OnFormUpdateStep

SpecSubs == InitSubs /\ [][NextSubs]_vars

-----------------------------------------------------------------------------
(* SpecCapture: the capture loop of WebcamCanvas (src/unnamed/part_002).   *)
(* Every canplay event starts a loop: processFrame runs once and, unless   *)
(* pose.send rejects, asks for the next animation frame, whose callback    *)
(* runs it again.  JavaScript runs each callback up to its await without   *)
(* interleaving, so one step is processFrame up to `await pose.send`, and  *)
(* another is the settling of a send.  The clock moves by 10 or 40 ms.     *)

ClockSteps == {10, 40}

\* processFrame without the isProcessingRef test
CaptureFrame_NoGuard(cm, l) ==
    IF cm.clock - cm.lastProcessingTime >= FRAME_INTERVAL_MS /\ cm.ready
    THEN [cm EXCEPT !.lastProcessingTime = cm.clock,
                    !.isProcessing = TRUE,
                    !.loops[l] = "sending",
                    !.inFlight = @ + 1,
                    !.prevSendAt = cm.sendAt,
                    !.sendAt = cm.clock]
    ELSE [cm EXCEPT !.loops[l] = "scheduled"]

\* processFrame, run by loop l, up to its await or its return
CaptureFrame(cm, l) ==
    IF cm.isProcessing
    THEN [cm EXCEPT !.loops[l] = "scheduled", !.deferred = TRUE]
    ELSE IF cm.clock - cm.lastProcessingTime >= FRAME_INTERVAL_MS /\ cm.ready
    THEN [cm EXCEPT !.lastProcessingTime = cm.clock,
                    !.isProcessing = TRUE,
                    !.loops[l] = "sending",
                    !.inFlight = @ + 1,
                    !.prevSendAt = cm.sendAt,
                    !.sendAt = cm.clock]
    ELSE [cm EXCEPT !.loops[l] = "scheduled"]

EngineIdle == UNCHANGED <<eng, now, last, env, nframes, nshort, nresets, mon, fresh, call>>

\* a canplay event: handleCanPlay calls processFrame
CanPlayStep ==
    /\ Len(cam.loops) < MaxLoops
    /\ cam' = CaptureFrame([cam EXCEPT !.loops = Append(@, "scheduled")],
                           Len(cam.loops) + 1)
    /\ EngineIdle

\* the animation-frame callback of a loop
AnimationFrameStep ==
    /\ \E l \in 1..Len(cam.loops) :
          /\ cam.loops[l] = "scheduled"
          /\ cam' = CaptureFrame(cam, l)
    /\ EngineIdle

\* pose.send resolves: the finally block, then requestAnimationFrame
SendResolvesStep ==
    /\ \E l \in 1..Len(cam.loops) :
          /\ cam.loops[l] = "sending"
          /\ cam' = [cam EXCEPT !.isProcessing = FALSE,
                                !.inFlight = @ - 1,
                                !.loops[l] = "scheduled"]
    /\ EngineIdle

\* pose.send rejects: the finally block, and the loop ends with the exception
SendRejectsStep ==
    /\ \E l \in 1..Len(cam.loops) :
          /\ cam.loops[l] = "sending"
          /\ cam' = [cam EXCEPT !.isProcessing = FALSE,
                                !.inFlight = @ - 1,
                                !.loops[l] = "ended"]
    /\ EngineIdle

\* performance.now() moves on
ClockStep ==
    /\ \E d \in ClockSteps :
          /\ cam.clock + d <= MaxClock
          /\ cam' = [cam EXCEPT !.clock = @ + d]
    /\ EngineIdle

\* the video element's readyState passes 2, upwards or downwards
ReadyStateStep ==
    /\ cam' = [cam EXCEPT !.ready = ~@]
    /\ EngineIdle

InitCapture ==
    /\ InitEngine(UnknownEnv)
    /\ cam = CameraOff
    /\ call = NoFunctionCall

NextCapture ==
    \/ CanPlayStep
    \/ AnimationFrameStep
    \/ SendResolvesStep
    \/ SendRejectsStep
    \/ ClockStep
    \/ ReadyStateStep

SpecCapture == InitCapture /\ [][NextCapture]_vars

-----------------------------------------------------------------------------
(* SpecBio: one call of calculateFormScore or of evaluateForm.  Init draws *)
(* the function and its arguments, the step makes the call.                *)

StressLevels == {"good", "warning", "bad"}

StressLists == UNION {[1..n -> StressLevels] : n \in 0..MaxStresses}

SymmetryInputs == {0 - 100, 50, 53, 100}

Angles(elbow, shoulderL, shoulderR, knee, hip, spine) ==
    [leftElbow |-> elbow, rightElbow |-> elbow,
     leftShoulder |-> shoulderL, rightShoulder |-> shoulderR,
     leftKnee |-> knee, rightKnee |-> knee + 10,
     leftHip |-> hip, rightHip |-> hip,
     spine |-> spine]

\* a straight body, a deep bend, positions in between
PoseInputs ==
    {Angles(175, 90, 90, 175, 180, 170),
     Angles(60, 30, 60, 65, 100, 150),
     Angles(100, 120, 120, 100, 210, 165),
     Angles(165, 100, 95, 145, 170, 160)}

VisibilityInputs == {<<90, 90>>, <<55, 90>>, <<40, 30>>}

FormExercises ==
    {"pushup", "squat", "bicep-curl", "plank",
     "lunge", "shoulder-press", "jumping-jack", "zumba"}

BiometricsInputs ==
    {[jointAngles |-> a, leftVis |-> v[1], rightVis |-> v[2], kneeSymmetry |-> k] :
        a \in PoseInputs, v \in VisibilityInputs, k \in {70, 90}}

InitBio ==
    /\ InitEngine(UnknownEnv)
    /\ cam = CameraOff
    /\ \/ \E levels \in StressLists, sym \in SymmetryInputs :
            call = [fn |-> "calculateFormScore", done |-> FALSE,
                    jointStresses |-> levels, overallSymmetry |-> sym]
       \/ \E id \in FormExercises, b \in BiometricsInputs :
            call = [fn |-> "evaluateForm", done |-> FALSE,
                    exerciseId |-> id, biometrics |-> b]

BioIdle == UNCHANGED <<eng, now, last, env, nframes, nshort, nresets, mon, fresh, cam>>

CalculateFormScoreStep ==
    /\ call.fn = "calculateFormScore" /\ ~call.done
    /\ call' = [fn |-> call.fn, done |-> TRUE,
                jointStresses |-> call.jointStresses,
                overallSymmetry |-> call.overallSymmetry,
                result |-> CalculateFormScoreOfList(call.jointStresses,
                                                    call.overallSymmetry)]
    /\ BioIdle

EvaluateFormStep ==
    /\ call.fn = "evaluateForm" /\ ~call.done
    /\ call' = [fn |-> call.fn, done |-> TRUE,
                exerciseId |-> call.exerciseId,
                biometrics |-> call.biometrics,
                result |-> EvaluateForm(call.exerciseId, call.biometrics)]
    /\ BioIdle

NextBio == CalculateFormScoreStep \/ EvaluateFormStep

SpecBio == InitBio /\ [][NextBio]_vars

-----------------------------------------------------------------------------
(* SpecAngles: one call of calculateSymmetryScore or of calculateBiometrics *)
(* (src/unnamed/part_002).  A side of the body enters as what the joint-    *)
(* angle functions read from its landmarks: the least visibility among     *)
(* them (hundredths) and the angle calculateAngle3D measures (degrees,     *)
(* 0 to 180), taken to be the same for every joint of the side.            *)

\* getElbowAngle, getShoulderAngle, getHipAngle, getSpineAngle: the measured
\* angle, whatever the visibility
GetElbowAngle(side) == side.angle

GetShoulderAngle(side) == side.angle

GetHipAngle(side) == side.angle

GetSpineAngle(trunk) == trunk.angle

\* getKneeAngle: -1 when hip, knee or ankle is less than half visible
GetKneeAngle(side) == IF side.vis < 50 THEN 0 - 1 ELSE side.angle

Max3(a, b, c) == IF a >= b /\ a >= c THEN a ELSE IF b >= c THEN b ELSE c

\* calculateSymmetryScore(leftAngle, rightAngle)
CalculateSymmetryScore(leftAngle, rightAngle) ==
    LET maxAngle == Max3(leftAngle, rightAngle, 1)
        difference == Abs(leftAngle - rightAngle)
    IN RRound(Rat(100 * (maxAngle - difference), maxAngle))

\* calculateBiometrics: jointAngles, symmetryScores and overallSymmetry
CalculateBiometrics(left, right, trunk) ==
    LET jointAngles ==
            [leftElbow |-> GetElbowAngle(left), rightElbow |-> GetElbowAngle(right),
             leftShoulder |-> GetShoulderAngle(left),
             rightShoulder |-> GetShoulderAngle(right),
             leftKnee |-> GetKneeAngle(left), rightKnee |-> GetKneeAngle(right),
             leftHip |-> GetHipAngle(left), rightHip |-> GetHipAngle(right),
             spine |-> GetSpineAngle(trunk)]
        symmetryScores ==
            [elbow |-> CalculateSymmetryScore(jointAngles.leftElbow, jointAngles.rightElbow),
             shoulder |-> CalculateSymmetryScore(jointAngles.leftShoulder,
                                                 jointAngles.rightShoulder),
             knee |-> CalculateSymmetryScore(jointAngles.leftKnee, jointAngles.rightKnee),
             hip |-> CalculateSymmetryScore(jointAngles.leftHip, jointAngles.rightHip)]
    IN [jointAngles |-> jointAngles,
        symmetryScores |-> symmetryScores,
        overallSymmetry |->
            RRound(Rat(symmetryScores.elbow + symmetryScores.shoulder
                         + symmetryScores.knee + symmetryScores.hip, 4))]

MeasuredAngles == {0, 1, 90, 170, 180}

JointAngleValues == MeasuredAngles \cup {0 - 1}

SideInputs == {[vis |-> v, angle |-> a] : v \in {20, 90}, a \in MeasuredAngles}

TrunkInputs == {[vis |-> v, angle |-> a] : v \in {20, 90}, a \in {150, 175}}

InitAngles ==
    /\ InitEngine(UnknownEnv)
    /\ cam = CameraOff
    /\ \/ \E l \in JointAngleValues, r \in JointAngleValues :
            call = [fn |-> "calculateSymmetryScore", done |-> FALSE,
                    leftAngle |-> l, rightAngle |-> r]
       \/ \E l \in SideInputs, r \in SideInputs, t \in TrunkInputs :
            call = [fn |-> "calculateBiometrics", done |-> FALSE,
                    left |-> l, right |-> r, trunk |-> t]

CallIdle == UNCHANGED <<eng, now, last, env, nframes, nshort, nresets, mon, fresh, cam>>

CalculateSymmetryScoreStep ==
    /\ call.fn = "calculateSymmetryScore" /\ ~call.done
    /\ call' = [fn |-> call.fn, done |-> TRUE,
                leftAngle |-> call.leftAngle, rightAngle |-> call.rightAngle,
                result |-> CalculateSymmetryScore(call.leftAngle, call.rightAngle)]
    /\ CallIdle

CalculateBiometricsStep ==
    /\ call.fn = "calculateBiometrics" /\ ~call.done
    /\ call' = [fn |-> call.fn, done |-> TRUE,
                left |-> call.left, right |-> call.right, trunk |-> call.trunk,
                result |-> CalculateBiometrics(call.left, call.right, call.trunk)]
    /\ CallIdle

NextAngles == CalculateSymmetryScoreStep \/ CalculateBiometricsStep

SpecAngles == InitAngles /\ [][NextAngles]_vars

-----------------------------------------------------------------------------
(* SpecFace: one call of analyzePainClinical (src/unnamed/part_002).  A    *)
(* face enters as what the function reads from the landmarks: whether the  *)
(* five landmarks it tests are present, whether the inner and the outer    *)
(* eye corners are, whether the two eyes coincide, and the four distances  *)
(* it normalises by the inter-eye distance, in thousandths.  The score is  *)
(* an exact rational, in tenths of the 0-10 scale.                         *)

RMul(a, b) == Rat(a[1] * b[1], a[2] * b[2])

\* Math.min(1.5, excess / (threshold * 0.08)) for excess > 0; the division
\* gives Infinity when the threshold is 0
AUIntensity(threshold, excess) ==
    IF threshold[1] = 0 THEN <<3, 2>>
    ELSE RMin(<<3, 2>>, Rat(excess[1] * threshold[2] * 25, excess[2] * threshold[1] * 2))

\* the four thresholds: eye-nose, eye narrowing, mouth-nose, mouth width
AUThresholds(baseline) ==
    IF baseline = <<>>
    THEN [au4 |-> RInt(520), au6 |-> RInt(200), au9 |-> RInt(780), au10 |-> RInt(1120)]
    ELSE [au4 |-> RMul(baseline[2], <<9, 10>>),
          au6 |-> RMul(baseline[3], <<22, 25>>),
          au9 |-> RMul(baseline[4], <<93, 100>>),
          au10 |-> RMul(baseline[5], <<23, 20>>)]

\* weight (in tenths) times intensity when below the threshold, else 0
AUBelow(weight, threshold, value) ==
    IF RLt(RInt(value), threshold)
    THEN RMul(RInt(weight), AUIntensity(threshold, RAbsDiff(threshold, RInt(value))))
    ELSE ZERO

\* the same for a value above the threshold
AUAbove(weight, threshold, value) ==
    IF RGt(RInt(value), threshold)
    THEN RMul(RInt(weight), AUIntensity(threshold, RAbsDiff(threshold, RInt(value))))
    ELSE ZERO

\* score after the four action units
PainScore(face, baseline) ==
    LET t == AUThresholds(baseline)
    IN RSum(<<AUBelow(12, t.au4, face.eyeNose),
              AUBelow(12, t.au6, face.eyeNarrow),
              AUBelow(25, t.au9, face.mouthNose),
              AUAbove(30, t.au10, face.mouthWidth)>>)

\* the score left uncapped
CapScore_None(score) == score

\* Math.min(10, score)
CapScore(score) == RMin(RInt(100), score)

NoPainResult ==
    [pain_detected |-> FALSE,
     confidence_score |-> 0,
     intensity_level |-> "Low",
     recommended_action |-> "Continue",
     pain_score_raw |-> ZERO,
     threw |-> FALSE]

\* intensity_level for a rational score
IntensityOfScore(raw) ==
    IF RGt(raw, RInt(90)) THEN "Critical"
    ELSE IF RGt(raw, RInt(70)) THEN "High"
    ELSE IF RGt(raw, RInt(40)) THEN "Moderate"
    ELSE "Low"

\* analyzePainClinical(landmarks, baseline); threw: a TypeError on reading a
\* coordinate of a missing eye corner
AnalyzePainClinical(face, baseline) ==
    IF ~face.tested \/ face.eyeDistZero THEN NoPainResult
    ELSE IF ~face.inner \/ ~face.outer THEN [threw |-> TRUE]
    ELSE LET raw == CapScore(PainScore(face, baseline))
         IN [pain_detected |-> RGt(raw, RInt(75)),
             confidence_score |-> 85,
             intensity_level |-> IntensityOfScore(raw),
             recommended_action |-> RecommendedAction(IntensityOfScore(raw)),
             pain_score_raw |-> raw,
             threw |-> FALSE]

\* which landmarks the frame has
LandmarkInputs ==
    {[tested |-> TRUE, inner |-> TRUE, outer |-> TRUE, eyeDistZero |-> FALSE],
     [tested |-> FALSE, inner |-> FALSE, outer |-> FALSE, eyeDistZero |-> FALSE],
     [tested |-> TRUE, inner |-> TRUE, outer |-> TRUE, eyeDistZero |-> TRUE],
     [tested |-> TRUE, inner |-> FALSE, outer |-> TRUE, eyeDistZero |-> FALSE],
     [tested |-> TRUE, inner |-> TRUE, outer |-> FALSE, eyeDistZero |-> FALSE]}

FaceInputs ==
    {[tested |-> m.tested, inner |-> m.inner, outer |-> m.outer,
      eyeDistZero |-> m.eyeDistZero,
      eyeNose |-> a, eyeNarrow |-> b, mouthNose |-> c, mouthWidth |-> d] :
        m \in LandmarkInputs, a \in {400, 500, 600}, b \in {100, 190, 250},
        c \in {600, 760, 900}, d \in {900, 1150, 1400}}

\* no baseline, the default baseline, a baseline measured on a still face
BaselineInputs ==
    {<<>>, DefaultBaseline,
     <<RInt(100), RInt(0), RInt(0), RInt(0), RInt(0)>>}

InitFace ==
    /\ InitEngine(UnknownEnv)
    /\ cam = CameraOff
    /\ \E f \in FaceInputs, b \in BaselineInputs :
          call = [fn |-> "analyzePainClinical", done |-> FALSE,
                  face |-> f, baseline |-> b]

AnalyzePainClinicalStep ==
    /\ call.fn = "analyzePainClinical" /\ ~call.done
    /\ call' = [fn |-> call.fn, done |-> TRUE,
                face |-> call.face, baseline |-> call.baseline,
                result |-> AnalyzePainClinical(call.face, call.baseline)]
    /\ CallIdle

NextFace == AnalyzePainClinicalStep

SpecFace == InitFace /\ [][NextFace]_vars

-----------------------------------------------------------------------------
(* SpecDTW: one call of computeDTW (src/unnamed/part_003).  A landmark is  *)
(* its x coordinate (y and z are 0), a frame a sequence of landmarks, the  *)
(* reference the sequence of its frames' landmarks.  A JavaScript number   *)
(* is <<"num", n, d>>, <<"inf", 1, 1>> for Infinity or <<"nan", 0, 1>>.    *)

MaxSequence == 2

Num(r) == <<"num", r[1], r[2]>>
Infinity == <<"inf", 1, 1>>
NaN == <<"nan", 0, 1>>

RatOf(x) == <<x[2], x[3]>>

\* a + b for non-negative operands
XAdd(a, b) ==
    IF a = NaN \/ b = NaN THEN NaN
    ELSE IF a = Infinity \/ b = Infinity THEN Infinity
    ELSE Num(RAdd(RatOf(a), RatOf(b)))

\* a <= b: false when an operand is NaN
XLe(a, b) ==
    IF a = NaN \/ b = NaN THEN FALSE
    ELSE IF b = Infinity THEN TRUE
    ELSE IF a = Infinity THEN FALSE
    ELSE ~RLt(RatOf(b), RatOf(a))

\* Math.min(a, b, c): NaN when an operand is NaN
XMin3(a, b, c) ==
    IF a = NaN \/ b = NaN \/ c = NaN THEN NaN
    ELSE IF XLe(a, b) /\ XLe(a, c) THEN a
    ELSE IF XLe(b, c) THEN b ELSE c

\* total / count for a finite total: 0 / 0 is NaN
XDiv(total, count) ==
    IF count = 0 THEN (IF total[1] = 0 THEN NaN ELSE Infinity)
    ELSE Num(Rat(total[1], total[2] * count))

\* mean distance between the landmarks of two frames
PoseDistance(frame1, frame2) ==
    IF Len(frame1) # Len(frame2) THEN Infinity
    ELSE XDiv(RSum([i \in 1..Len(frame1) |-> RInt(Abs(frame1[i] - frame2[i]))]),
              Len(frame1))

\* ExpThresholds[s]: the largest x, in units of 1/100000, for which
\* Math.round(100 * Math.exp(-5 * x)) >= s
ExpThresholds ==
    <<
      105966, 83994, 73777, 67048, 62021, 58008, 54667, 51805, 49302, 47077,
      45075, 43256, 41588, 40049, 38620, 37286, 36036, 34859, 33747, 32695,
      31694, 30742, 29833, 28963, 28129, 27329, 26560, 25819, 25105, 24415,
      23748, 23103, 22478, 21872, 21284, 20712, 20157, 19616, 19090, 18577,
      18077, 17589, 17113, 16648, 16193, 15749, 15314, 14888, 14472, 14063,
      13663, 13271, 12887, 12509, 12139, 11775, 11418, 11067, 10722, 10383,
      10050, 9722, 9400, 9082, 8770, 8462, 8159, 7860, 7566, 7276,
      6991, 6709, 6431, 6157, 5887, 5620, 5357, 5097, 4841, 4588,
      4338, 4091, 3847, 3606, 3368, 3133, 2900, 2670, 2443, 2218,
      1996, 1776, 1559, 1344, 1131, 920, 712, 506, 302, 100>>

\* Math.round(100 * Math.exp(-x * 5)) for a finite x >= 0
Round100Exp(x) ==
    Cardinality({s \in 1..100 : x[1] * 100000 <= ExpThresholds[s] * x[2]})

\* Math.max(0, Math.min(100, score)) left out
QualityScore_Complement(normalizedDistance) ==
    IF normalizedDistance = NaN THEN NaN
    ELSE IF normalizedDistance = Infinity THEN Num(RInt(100))
    ELSE Num(RInt(100 - Round100Exp(RatOf(normalizedDistance))))

\* Math.max(0, Math.min(100, Math.round(100 * Math.exp(-normalizedDistance * 5))))
QualityScore(normalizedDistance) ==
    IF normalizedDistance = NaN THEN NaN
    ELSE IF normalizedDistance = Infinity THEN Num(RInt(0))
    ELSE Num(RInt(Round100Exp(RatOf(normalizedDistance))))

\* the filled matrix dtw[i][j]
DTWMatrix(userSequence, frames) ==
    LET n == Len(userSequence)
        m == Len(frames)
        dtw[p \in (0..n) \X (0..m)] ==
            LET i == p[1]
                j == p[2]
            IN IF i = 0 /\ j = 0 THEN Num(RInt(0))
               ELSE IF i = 0 \/ j = 0 THEN Infinity
               ELSE XAdd(PoseDistance(userSequence[i], frames[j]),
                         XMin3(dtw[<<i - 1, j>>], dtw[<<i, j - 1>>], dtw[<<i - 1, j - 1>>]))
    IN dtw

RECURSIVE Backtrack(_, _, _, _)
\* the while loop from (i, j): path.unshift, then one step back
Backtrack(dtw, i, j, path) ==
    IF ~(i > 0 /\ j > 0) THEN path
    ELSE LET diag == dtw[<<i - 1, j - 1>>]
             left == dtw[<<i, j - 1>>]
             up == dtw[<<i - 1, j>>]
             extended == <<(<<i - 1, j - 1>>)>> \o path
         IN IF XLe(diag, left) /\ XLe(diag, up) THEN Backtrack(dtw, i - 1, j - 1, extended)
            ELSE IF XLe(left, up) THEN Backtrack(dtw, i, j - 1, extended)
            ELSE Backtrack(dtw, i - 1, j, extended)

Max2(a, b) == IF a >= b THEN a ELSE b

\* distance / Math.max(n, m)
Normalized(distance, longest) ==
    IF distance = NaN \/ distance = Infinity THEN distance
    ELSE XDiv(RatOf(distance), longest)

\* computeDTW(userSequence, goldSequence), frames being goldSequence.frames
ComputeDTW(userSequence, frames) ==
    LET n == Len(userSequence)
        m == Len(frames)
    IN IF n = 0 \/ m = 0
       THEN [distance |-> Infinity, normalizedDistance |-> Infinity,
             alignmentPath |-> <<>>, qualityScore |-> Num(RInt(0))]
       ELSE LET dtw == DTWMatrix(userSequence, frames)
                distance == dtw[<<n, m>>]
                normalizedDistance == Normalized(distance, Max2(n, m))
            IN [distance |-> distance,
                normalizedDistance |-> normalizedDistance,
                alignmentPath |-> Backtrack(dtw, n, m, <<>>),
                qualityScore |-> QualityScore(normalizedDistance)]

\* frames of no, one and two landmarks
DTWFrames == {<<>>, <<0>>, <<1>>, <<0, 1>>}

SequenceInputs == UNION {[1..k -> DTWFrames] : k \in 0..MaxSequence}

\* references for a user sequence: the same frames, none, the frames in
\* reverse, displaced, without the last one, with the last one repeated
ReferenceInputs(u) ==
    {u, <<>>,
     [i \in 1..Len(u) |-> u[Len(u) + 1 - i]],
     [i \in 1..Len(u) |-> [k \in 1..Len(u[i]) |-> 1 - u[i][k]]]}
    \cup (IF u = <<>> THEN {} ELSE {SubSeq(u, 1, Len(u) - 1), Append(u, u[Len(u)])})

InitDTW ==
    /\ InitEngine(UnknownEnv)
    /\ cam = CameraOff
    /\ \E u \in SequenceInputs :
          \E g \in ReferenceInputs(u) :
             call = [fn |-> "computeDTW", done |-> FALSE,
                     userSequence |-> u, frames |-> g]

ComputeDTWStep ==
    /\ call.fn = "computeDTW" /\ ~call.done
    /\ call' = [fn |-> call.fn, done |-> TRUE,
                userSequence |-> call.userSequence, frames |-> call.frames,
                result |-> ComputeDTW(call.userSequence, call.frames)]
    /\ CallIdle

NextDTW == ComputeDTWStep

SpecDTW == InitDTW /\ [][NextDTW]_vars

-----------------------------------------------------------------------------
(* SpecCycle: sessions of the rep-counting exercises.  Every exercise but  *)
(* the curl replays the sweep 170 -> 60 -> 170; the curl, whose cycle      *)
(* opens below 60 degrees, gets frames 500 ms apart whose angle is 40 or   *)
(* 170.                                                                    *)

MaxFramesCurl == 18

CycleExercises ==
    {"pushup", "tricep-dip", "squat", "lunge",
     "shoulder-press", "lateral-raise", "jumping-jack"}

CycleHalves == {9, 17, 27}

CyclePeriods == {40, 100}

CurlEnv ==
    [RepEnv({"bicep-curl"}) EXCEPT
       !.firsts = {500},
       !.dts = {500},
       !.maxFrames = MaxFramesCurl]

InitCycle ==
    \/ \E id \in CycleExercises, half \in CycleHalves, dt \in CyclePeriods :
          InitWith([SweepEnv(half, dt, MaxCycles) EXCEPT !.exs = {id}])
    \/ InitWith(CurlEnv)

NextCycle == ProcessFrameStep

SpecCycle == InitCycle /\ [][NextCycle]_vars

-----------------------------------------------------------------------------
(* SpecTrack: push-up sessions in which the tracker may lose the arm: each *)
(* frame's primary angle is 40, 170 or -1.  Frames are 100 ms apart (a     *)
(* lost frame falls inside the 300 ms latch window unless two lost frames  *)
(* precede it) or 400 ms apart (it never does).                            *)

MaxFramesTrack == 8

TrackEnv(dt) ==
    [RepEnv({"pushup"}) EXCEPT
       !.firsts = {dt},
       !.dts = {dt},
       !.angles = {RInt(40), RInt(170), UNRELIABLE},
       !.maxFrames = CalFrames(dt) + MaxFramesTrack]

InitTrack == \E dt \in {100, 400} : InitWith(TrackEnv(dt))

NextTrack == ProcessFrameStep

SpecTrack == InitTrack /\ [][NextTrack]_vars

-----------------------------------------------------------------------------
(* SpecStream: one StreamingDTW object (src/unnamed/part_003) under        *)
(* addFrame and reset.  The object lives in the variable call: windowSize, *)
(* goldSequence (its frames), userBuffer, lastResult (<<>> for null, else  *)
(* <<result>>), the value the last addFrame returned, and beside them the  *)
(* frames handed to addFrame since construction or reset.                  *)

MaxStreamFrames == 8

MaxStreamResets == 1

\* new StreamingDTW(goldSequence, windowSize)
NewStreamingDTW(goldSequence, windowSize) ==
    [fn |-> "StreamingDTW", done |-> FALSE,
     goldSequence |-> goldSequence,
     windowSize |-> windowSize,
     userBuffer |-> <<>>,
     lastResult |-> <<>>,
     returned |-> <<>>,
     fed |-> <<>>, calls |-> 0, resets |-> 0]

\* array.slice(-k) for k > 0: the last k elements
SliceLast(array, k) ==
    IF Len(array) <= k THEN array
    ELSE SubSeq(array, Len(array) - k + 1, Len(array))

\* addFrame(landmarks) without the cut of the buffer
AddFrame_NoCut(s, landmarks) ==
    LET userBuffer == Append(s.userBuffer, landmarks)
        lastResult == IF 2 * Len(userBuffer) >= s.windowSize
                      THEN <<ComputeDTW(userBuffer, s.goldSequence)>>
                      ELSE s.lastResult
    IN [s EXCEPT !.userBuffer = userBuffer,
                 !.lastResult = lastResult,
                 !.returned = lastResult]

\* addFrame(landmarks)
AddFrame(s, landmarks) ==
    LET pushed == Append(s.userBuffer, landmarks)
        userBuffer == IF Len(pushed) > s.windowSize * 2
                      THEN SliceLast(pushed, s.windowSize) ELSE pushed
        lastResult == IF 2 * Len(userBuffer) >= s.windowSize
                      THEN <<ComputeDTW(userBuffer, s.goldSequence)>>
                      ELSE s.lastResult
    IN [s EXCEPT !.userBuffer = userBuffer,
                 !.lastResult = lastResult,
                 !.returned = lastResult]

\* reset() of the streaming buffer
StreamReset(s) == [s EXCEPT !.userBuffer = <<>>, !.lastResult = <<>>]

\* the reference the object is built with
StreamReference == <<(<<0>>), (<<1>>)>>

InitStream ==
    /\ InitEngine(UnknownEnv)
    /\ cam = CameraOff
    /\ \E w \in {1, 2, 3, 5} : call = NewStreamingDTW(StreamReference, w)

AddFrameStep ==
    /\ call.fn = "StreamingDTW" /\ call.calls < MaxStreamFrames
    /\ \E landmarks \in {<<0>>, <<1>>} :
          call' = [AddFrame(call, landmarks) EXCEPT
                     !.done = TRUE,
                     !.fed = Append(@, landmarks),
                     !.calls = @ + 1]
    /\ CallIdle

StreamResetStep ==
    /\ call.fn = "StreamingDTW" /\ call.resets < MaxStreamResets
    /\ call' = [StreamReset(call) EXCEPT
                  !.done = FALSE, !.returned = <<>>,
                  !.fed = <<>>, !.resets = @ + 1]
    /\ CallIdle

NextStream == AddFrameStep \/ StreamResetStep

SpecStream == InitStream /\ [][NextStream]_vars

-----------------------------------------------------------------------------
(* SpecSave and SpecStreak: the local database of src/src/lib/db.ts.  Days  *)
(* are numbered; the date strings of the code are only compared for        *)
(* equality.  Every table operation is one step of the database; a caller  *)
(* waits for it and goes on in a later step, so that the steps of two      *)
(* saveWorkoutSession calls can interleave.  avgFormScore is an exact      *)
(* fraction.                                                               *)

MaxDay == 4

MaxStreakCalls == 5

SaveExercises == {"squat", "pushup"}

\* new PhysioDatabase(): three empty tables
NewPhysioDatabase == [sessions |-> <<>>, dailyStats |-> {}, streaks |-> <<>>]

\* db.sessions.add(session): the key is the next number
SessionsAdd(db, session) == [db EXCEPT !.sessions = Append(@, session)]

\* db.dailyStats.get(date): <<>> stands for undefined
DailyStatsGet(db, date) ==
    LET rows == {r \in db.dailyStats : r.date = date}
    IN IF rows = {} THEN <<>> ELSE <<CHOOSE r \in rows : TRUE>>

\* db.dailyStats.put(row): inserts or replaces the row of that date
DailyStatsPut(db, row) ==
    [db EXCEPT !.dailyStats = {r \in @ : r.date # row.date} \cup {row}]

\* db.dailyStats.add(row) rejects when the table has a row of that date
DailyStatsAddFails(db, row) == \E r \in db.dailyStats : r.date = row.date

\* db.dailyStats.add(row)
DailyStatsAdd(db, row) == [db EXCEPT !.dailyStats = @ \cup {row}]

\* db.streaks.orderBy('id').last(): <<>> stands for undefined
StreaksLast(db) ==
    IF db.streaks = <<>> THEN <<>> ELSE <<db.streaks[Len(db.streaks)]>>

\* db.streaks.put(streak): replaces the record of that id
StreaksPut(db, streak) == [db EXCEPT !.streaks[streak.id] = streak]

\* db.streaks.add(record): the id is the next number
StreaksAdd(db, lastActiveDate, currentStreak, longestStreak) ==
    [db EXCEPT !.streaks =
        Append(@, [id |-> Len(@) + 1,
                   lastActiveDate |-> lastActiveDate,
                   currentStreak |-> currentStreak,
                   longestStreak |-> longestStreak])]

\* the row updateDailyStats writes for a session, from the row it has read
DailyStatsRow(stats, session, today) ==
    IF stats # <<>>
    THEN LET totalReps == stats[1].totalReps + session.reps
             totalFormScore == RAdd(RMul(stats[1].avgFormScore, RInt(stats[1].exerciseCount)),
                                    RInt(session.formScore))
             exerciseCount == stats[1].exerciseCount + 1
         IN [stats[1] EXCEPT
               !.totalReps = totalReps,
               !.avgFormScore = Rat(totalFormScore[1], totalFormScore[2] * exerciseCount),
               !.exerciseCount = exerciseCount,
               !.totalDuration = @ + session.duration,
               !.exercises[session.exerciseId] = @ + session.reps]
    ELSE [date |-> today,
          totalReps |-> session.reps,
          avgFormScore |-> RInt(session.formScore),
          exerciseCount |-> 1,
          totalDuration |-> session.duration,
          exercises |-> [x \in SaveExercises |->
                           IF x = session.exerciseId THEN session.reps ELSE 0]]

\* whether the write of updateDailyStats rejects: add() of a row whose date
\* is in the table by now
UpdateDailyStatsFails(db, stats, session, today) ==
    stats = <<>> /\ DailyStatsAddFails(db, DailyStatsRow(stats, session, today))

\* the write that ends updateDailyStats: put() of the row read and changed,
\* or add() of a first row
UpdateDailyStatsWrite(db, stats, session, today) ==
    IF stats # <<>>
    THEN DailyStatsPut(db, DailyStatsRow(stats, session, today))
    ELSE DailyStatsAdd(db, DailyStatsRow(stats, session, today))

\* updateDailyStats(session), run without another caller in between
UpdateDailyStats(db, session, today) ==
    UpdateDailyStatsWrite(db, DailyStatsGet(db, today), session, today)

\* updateStreak() leaving longestStreak as it was when the streak goes on
UpdateStreakWrite_KeepsLongest(db, streak, today) ==
    IF streak # <<>>
    THEN IF streak[1].lastActiveDate = today THEN db
         ELSE IF streak[1].lastActiveDate = today - 1
         THEN StreaksPut(db, [streak[1] EXCEPT
                                !.currentStreak = @ + 1,
                                !.lastActiveDate = today])
         ELSE StreaksAdd(db, today, 1, streak[1].longestStreak)
    ELSE StreaksAdd(db, today, 1, 1)

\* the part of updateStreak() after it has read the latest record
UpdateStreakWrite(db, streak, today) ==
    IF streak # <<>>
    THEN IF streak[1].lastActiveDate = today THEN db
         ELSE IF streak[1].lastActiveDate = today - 1
         THEN LET currentStreak == streak[1].currentStreak + 1
              IN StreaksPut(db, [streak[1] EXCEPT
                                   !.currentStreak = currentStreak,
                                   !.lastActiveDate = today,
                                   !.longestStreak =
                                       IF currentStreak > @ THEN currentStreak ELSE @])
         ELSE StreaksAdd(db, today, 1, streak[1].longestStreak)
    ELSE StreaksAdd(db, today, 1, 1)

\* updateStreak(), run without another caller in between
UpdateStreak(db, today) == UpdateStreakWrite(db, StreaksLast(db), today)

\* saveWorkoutSession(session), run without another caller in between
SaveWorkoutSession(db, session, today) ==
    UpdateStreak(UpdateDailyStats(SessionsAdd(db, session), session, today), today)

\* the workout sessions handed to saveWorkoutSession on a day
SessionInputs(day) ==
    {[date |-> day, exerciseId |-> "squat", reps |-> 3, formScore |-> 60, duration |-> 10],
     [date |-> day, exerciseId |-> "pushup", reps |-> 5, formScore |-> 90, duration |-> 20],
     [date |-> day, exerciseId |-> "squat", reps |-> 5, formScore |-> 85, duration |-> 20]}

\* the databases the two calls find: empty, or after one session saved on
\* the same day or on the day before
DatabaseInputs(today) ==
    {NewPhysioDatabase}
      \cup {SaveWorkoutSession(NewPhysioDatabase, s, today) : s \in SessionInputs(today)}
      \cup {SaveWorkoutSession(NewPhysioDatabase, s, today - 1) : s \in SessionInputs(today - 1)}

Callers == {1, 2}

\* a saveWorkoutSession call before its first database step
NewSave(session) ==
    [pc |-> "sessions.add", session |-> session, stats |-> <<>>, streak |-> <<>>]

InitSave ==
    /\ InitEngine(UnknownEnv)
    /\ cam = CameraOff
    /\ \E db \in DatabaseInputs(MaxDay), s1 \in SessionInputs(MaxDay),
          s2 \in SessionInputs(MaxDay) :
          call = [fn |-> "saveWorkoutSession",
                  db |-> db,
                  before |-> db,
                  today |-> MaxDay,
                  proc |-> [p \in Callers |-> NewSave(IF p = 1 THEN s1 ELSE s2)]]

\* saveWorkoutSession, l.26: await db.sessions.add(session)
SessionsAddStep(p) ==
    /\ call.fn = "saveWorkoutSession" /\ call.proc[p].pc = "sessions.add"
    /\ call' = [call EXCEPT
                  !.db = SessionsAdd(@, call.proc[p].session),
                  !.proc[p].pc = "dailyStats.get"]
    /\ CallIdle

\* updateDailyStats, l.35: await db.dailyStats.get(today)
DailyStatsGetStep(p) ==
    /\ call.fn = "saveWorkoutSession" /\ call.proc[p].pc = "dailyStats.get"
    /\ call' = [call EXCEPT
                  !.proc[p].stats = DailyStatsGet(call.db, call.today),
                  !.proc[p].pc = "dailyStats.write"]
    /\ CallIdle

\* updateDailyStats, l.37-60: await db.dailyStats.put(stats) or add(...);
\* a rejected add() rejects saveWorkoutSession
DailyStatsWriteStep(p) ==
    /\ call.fn = "saveWorkoutSession" /\ call.proc[p].pc = "dailyStats.write"
    /\ LET me == call.proc[p]
       IN IF UpdateDailyStatsFails(call.db, me.stats, me.session, call.today)
          THEN call' = [call EXCEPT !.proc[p].pc = "rejected"]
          ELSE call' = [call EXCEPT
                          !.db = UpdateDailyStatsWrite(@, me.stats, me.session, call.today),
                          !.proc[p].pc = "streaks.last"]
    /\ CallIdle

\* updateStreak, l.67: await db.streaks.orderBy('id').last(); the call
\* returns without another step when the record is of today
StreaksLastStep(p) ==
    /\ call.fn = "saveWorkoutSession" /\ call.proc[p].pc = "streaks.last"
    /\ LET streak == StreaksLast(call.db)
       IN call' = [call EXCEPT
                     !.proc[p].streak = streak,
                     !.proc[p].pc =
                         IF streak # <<>> /\ streak[1].lastActiveDate = call.today
                         THEN "resolved" ELSE "streaks.write"]
    /\ CallIdle

\* updateStreak, l.69-96: await db.streaks.put(streak) or add(...)
StreaksWriteStep(p) ==
    /\ call.fn = "saveWorkoutSession" /\ call.proc[p].pc = "streaks.write"
    /\ call' = [call EXCEPT
                  !.db = UpdateStreakWrite(@, call.proc[p].streak, call.today),
                  !.proc[p].pc = "resolved"]
    /\ CallIdle

NextSave ==
    \E p \in Callers :
        \/ SessionsAddStep(p)
        \/ DailyStatsGetStep(p)
        \/ DailyStatsWriteStep(p)
        \/ StreaksLastStep(p)
        \/ StreaksWriteStep(p)

SpecSave == InitSave /\ [][NextSave]_vars

InitStreak ==
    /\ InitEngine(UnknownEnv)
    /\ cam = CameraOff
    /\ call = [fn |-> "updateStreak", db |-> NewPhysioDatabase, today |-> 0, calls |-> 0]

\* one updateStreak() call run to its end, on any day
UpdateStreakStep ==
    /\ call.fn = "updateStreak" /\ call.calls < MaxStreakCalls
    /\ \E today \in 1..MaxDay :
          call' = [call EXCEPT
                     !.db = UpdateStreak(@, today),
                     !.today = today,
                     !.calls = @ + 1]
    /\ CallIdle

NextStreak == UpdateStreakStep

SpecStreak == InitStreak /\ [][NextStreak]_vars

-----------------------------------------------------------------------------
(* Claims about calibration: C11 under Spec, C12 to C15 under SpecCal *)

Accepted == last.op = "processFrame" /\ last.outcome # "rejected"

\* C11: a processFrame call on a calibrating engine leaves phase, repCount,
\* currentAngle, formScore, painScore, jointStress and system_command as they
\* were, leaves the pain timer unset and notifies no subscriber; a call on an
\* engine that is not calibrating adds no calibration sample.
C11_CalibrationExcludesAnalysis ==
    [][last'.op = "processFrame" =>
         /\ eng.state.isCalibrating =>
              /\ eng'.state.phase = eng.state.phase
              /\ eng'.state.repCount = eng.state.repCount
              /\ eng'.state.currentAngle = eng.state.currentAngle
              /\ eng'.state.formScore = eng.state.formScore
              /\ eng'.state.painScore = eng.state.painScore
              /\ eng'.state.jointStress = eng.state.jointStress
              /\ eng'.state.safetyLog.system_command = eng.state.safetyLog.system_command
              /\ eng'.acutePainStartTime = NULL
              /\ last'.rep = <<>> /\ last'.form = 0 /\ last'.stop = 0
         /\ ~eng.state.isCalibrating =>
              eng'.calibrationFrames = eng.calibrationFrames]_vars

\* the frame that ends calibration, with a high pain score and subscribers
\* listening, and an analysed frame after it
C11_Witness ==
    /\ Analysed /\ Halted
    /\ eng.repCallbacks > 0 /\ eng.formCallbacks > 0 /\ eng.stopCallbacks > 0
    /\ Len(eng.calibrationFrames) = mon.calCount

CalibrationFrame == last.op = "processFrame" /\ last.outcome = "calibrated"

\* every calibration frame so far had all its facial landmarks
AllFacesComplete == Len(eng.calibrationFrames) = mon.calCount

\* C12: in a session whose frames all show a complete face, an accepted frame
\* ends calibration and yields a baseline if and only if it is stamped at
\* least 3000 ms after the first frame accepted since construction or reset.
C12_CalibrationEndsAtThreshold ==
    [][(CalibrationFrame /\ AllFacesComplete)' =>
         LET due == now' - mon'.firstAccepted >= CALIBRATION_MS
         IN /\ eng'.state.isCalibrating = ~due
            /\ (eng'.baseline # <<>>) = due]_vars

\* C13: once calibration has ended with at least one complete face among
\* its frames, each baseline ratio is the sum of that ratio over the complete
\* faces divided by their number.
C13_BaselineIsMeanOfValidFrames ==
    (~eng.state.isCalibrating /\ mon.calCount > 0) =>
        eng.baseline = [k \in 1..5 |-> Rat(mon.calSums[k], mon.calCount)]

\* calibration ended over frames of which some had a face and some had none,
\* the last one included
C13_Witness ==
    /\ CalibrationFrame /\ ~eng.state.isCalibrating
    /\ mon.calCount = 2 /\ Len(eng.calibrationFrames) = 3
    /\ eng.calibrationFrames[3].valid
    /\ eng.calibrationFrames[1] # eng.calibrationFrames[3]

\* C14: an accepted frame stamped 3000 ms or more after the first accepted
\* frame (itself stamped after 0), with no complete face among the
\* calibration frames, ends calibration with the default baseline and does
\* not throw.
C14_DefaultBaselineWhenNoValidSample ==
    [][(/\ CalibrationFrame
        /\ mon.firstAccepted > 0
        /\ now - mon.firstAccepted >= CALIBRATION_MS
        /\ mon.calCount = 0)' =>
         /\ ~eng'.state.isCalibrating
         /\ eng'.baseline = DefaultBaseline
         /\ ~last'.threw]_vars

\* calibration over frames without any facial landmark ends with the default
DefaultBaselineUsed ==
    /\ CalibrationFrame /\ ~eng.state.isCalibrating
    /\ mon.calCount = 0 /\ eng.baseline = DefaultBaseline

\* the engine still calibrating 6 s after the first accepted frame
StuckCalibrating ==
    /\ CalibrationFrame /\ last.threw /\ eng.state.isCalibrating
    /\ mon.firstAccepted > 0
    /\ now - mon.firstAccepted >= 2 * CALIBRATION_MS

\* C15: once a baseline exists, a processFrame call leaves it as it is and
\* leaves isCalibrating false; the baseline changes only by reset(), which
\* discards it.
C15_BaselineImmutable ==
    [][eng.baseline # <<>> =>
         /\ last'.op = "processFrame" =>
              eng'.baseline = eng.baseline /\ ~eng'.state.isCalibrating
         /\ eng'.baseline # eng.baseline =>
              last'.op = "reset" /\ eng'.baseline = <<>>]_vars

\* two analysed frames after a baseline measured from two different faces
C15_Witness ==
    /\ Analysed /\ ~CalibrationFrame /\ nframes >= 5
    /\ mon.calCount = 3 /\ eng.baseline \notin {<<>>, DefaultBaseline}
    /\ eng.calibrationFrames[1] # eng.calibrationFrames[2]

-----------------------------------------------------------------------------
(* Claims about the plank: C16 under SpecPlank *)

PlankHoldLeft ==
    /\ Analysed /\ eng.state.phase = "IDLE" /\ eng.state.repCount >= 1
    /\ mon.plankRun = 0 - MIN_PHASE_FRAMES

\* a frame on which the glitch filter skipped phase detection during a run
PlankFrameSkipped ==
    /\ Analysed /\ IsGlitching(eng) /\ mon.plankRun \in 1..3
    /\ eng.phaseFrameCount = mon.plankRun

-----------------------------------------------------------------------------
(* Claims about subscribers: C17 under SpecSubs *)

CallsOf(kind) == SelectSeq(last.calls, LAMBDA made : made.kind = kind)

\* C17: during a processFrame call the rep subscribers are called, each once
\* and in the order they registered, with the new repCount if the call
\* changed repCount, and not at all otherwise; the form subscribers are
\* called, each once and in the order they registered, if the frame was
\* analysed, and not at all if it was rejected or used for calibration.
C17_SubscribersNotifiedInOrder ==
    [][last'.op = "processFrame" =>
         /\ CallsOf("rep")' =
              IF eng'.state.repCount # eng.state.repCount
              THEN [i \in 1..eng.repCallbacks |->
                      [kind |-> "rep", sub |-> i, arg |-> eng'.state.repCount]]
              ELSE <<>>
         /\ \A i \in 1..Len(CallsOf("form")') : CallsOf("form")'[i].sub = i
         /\ Len(CallsOf("form")') =
              IF last'.outcome = "analysed" THEN eng.formCallbacks ELSE 0]_vars

\* a counted push-up announced to two rep subscribers and two form subscribers
C17_Witness ==
    /\ Analysed /\ eng.exerciseId = "pushup"
    /\ Len(CallsOf("rep")) = MaxListeners /\ Len(CallsOf("form")) = MaxListeners
    /\ eng.state.repCount = 1

\* a plank tick that moves repCount on, announced once to each subscriber
PlankTickAnnounced ==
    /\ Analysed /\ eng.exerciseId = "plank"
    /\ Len(CallsOf("rep")) = MaxListeners /\ eng.state.repCount > 0

\* a rejected frame with subscribers registered
RejectedFrameSilent ==
    /\ ShortFrame /\ eng.formCallbacks > 0 /\ eng.repCallbacks > 0
    /\ last.calls = <<>> /\ ~eng.state.isCalibrating

-----------------------------------------------------------------------------
(* Claims about the capture loop: C18 under SpecCapture *)

\* C18: at most one pose.send is unsettled at any time, however many loops
\* canplay events have started, and every pose.send comes at least 40 ms
\* after the one before it.
C18_SendsNeverOverlap ==
    /\ cam.inFlight <= 1
    /\ cam.prevSendAt # NULL => cam.sendAt - cam.prevSendAt >= FRAME_INTERVAL_MS

\* two loops running, the second send issued 40 ms after the first, and a
\* callback that was turned away while a send was unsettled
C18_Witness ==
    /\ Len(cam.loops) = MaxLoops /\ cam.deferred
    /\ cam.inFlight = 1
    /\ cam.prevSendAt # NULL /\ cam.sendAt - cam.prevSendAt = FRAME_INTERVAL_MS

-----------------------------------------------------------------------------
(* Claims about form scoring: C19 and C20 under SpecBio *)

Returned(fn) == call.fn = fn /\ call.done

EntriesAt(level) ==
    Cardinality({i \in DOMAIN call.jointStresses : call.jointStresses[i] = level})

\* 100 - 15 #bad - 5 #warning + (overallSymmetry - 50) / 5, in fifths
ScoreInFifths ==
    5 * (100 - 15 * EntriesAt("bad") - 5 * EntriesAt("warning"))
      + (call.overallSymmetry - 50)

\* rounded to the nearest integer and clamped to 0..100
ClampedRoundedScore ==
    LET rounded == (2 * ScoreInFifths + 5) \div 10
    IN IF rounded < 0 THEN 0 ELSE IF rounded > 100 THEN 100 ELSE rounded

\* C19: calculateFormScore returns 100 - 15 per 'bad' entry - 5 per 'warning'
\* entry + (overallSymmetry - 50) / 5, rounded and clamped to 0..100: an
\* integer between 0 and 100.
C19_FormScoreFormula ==
    Returned("calculateFormScore") =>
        /\ call.result = ClampedRoundedScore
        /\ call.result \in 0..100

\* a list with repeated bad and warning entries whose score is not clamped
C19_Witness ==
    /\ Returned("calculateFormScore")
    /\ EntriesAt("bad") >= 2 /\ EntriesAt("warning") >= 2 /\ EntriesAt("good") >= 1
    /\ call.overallSymmetry = 53
    /\ call.result \in 1..99

\* scores that the clamp cuts off at 0 and at 100
FormScoreClampedLow == Returned("calculateFormScore") /\ ScoreInFifths < 0 /\ call.result = 0

FormScoreClampedHigh == Returned("calculateFormScore") /\ ScoreInFifths > 500 /\ call.result = 100

DedicatedFormBranches == {"pushup", "squat", "bicep-curl", "plank"}

\* C20: for an exercise id other than pushup, squat, bicep-curl and plank,
\* evaluateForm returns the eight default joints (left and right shoulder,
\* elbow, hip, knee), each marked good.
C20_DefaultJointSetGood ==
    (Returned("evaluateForm") /\ call.exerciseId \notin DedicatedFormBranches) =>
        /\ Len(call.result) = 8
        /\ {call.result[i] : i \in 1..Len(call.result)}
             = {DefaultJointStresses[i] : i \in 1..8}

\* evaluateForm returning the empty list for a lunge
EmptyStressesForLunge ==
    Returned("evaluateForm") /\ call.exerciseId = "lunge" /\ call.result = <<>>

-----------------------------------------------------------------------------
(* Claims about joint angles and symmetry: C21 and C22 under SpecAngles *)

\* C21: calculateSymmetryScore returns a value between 0 and 100 for angles
\* between 0 and 180 and for the sentinel -1, and 100 for two equal angles
\* that are not negative; overallSymmetry is between 0 and 100.
C21_SymmetryWithinRange ==
    /\ Returned("calculateSymmetryScore") =>
         /\ call.result \in 0..100
         /\ (call.leftAngle = call.rightAngle /\ call.leftAngle >= 0) => call.result = 100
    /\ Returned("calculateBiometrics") => call.result.overallSymmetry \in 0..100

\* the symmetry score of an unreliable knee against a visible one
NegativeSymmetryScore ==
    /\ Returned("calculateSymmetryScore")
    /\ call.leftAngle = 0 - 1 /\ call.rightAngle = 170 /\ call.result = 0 - 1

\* a snapshot whose overall symmetry is negative
NegativeOverallSymmetry ==
    Returned("calculateBiometrics") /\ call.result.overallSymmetry < 0

\* equal angles, zero included, score 100
EqualAnglesScoreFull ==
    /\ Returned("calculateSymmetryScore")
    /\ call.leftAngle = 0 /\ call.rightAngle = 0 /\ call.result = 100

JointSides ==
    [leftElbow |-> "left", rightElbow |-> "right",
     leftShoulder |-> "left", rightShoulder |-> "right",
     leftKnee |-> "left", rightKnee |-> "right",
     leftHip |-> "left", rightHip |-> "right", spine |-> "trunk"]

\* the least visibility among the landmarks of the joint
MinVisibility(joint) ==
    IF JointSides[joint] = "left" THEN call.left.vis
    ELSE IF JointSides[joint] = "right" THEN call.right.vis
    ELSE call.trunk.vis

\* C22: in the snapshot calculateBiometrics returns, a joint angle is -1 if
\* the least visibility among the joint's landmarks is below 0.5, and lies
\* between 0 and 180 otherwise.
C22_LowVisibilityFlagged ==
    Returned("calculateBiometrics") =>
        \A joint \in DOMAIN JointSides :
            IF MinVisibility(joint) < 50
            THEN call.result.jointAngles[joint] = 0 - 1
            ELSE call.result.jointAngles[joint] \in 0..180

\* an elbow angle reported for a side whose landmarks are barely visible,
\* while the knee of the same side is flagged
ElbowNotFlagged ==
    /\ Returned("calculateBiometrics") /\ call.left.vis < 50
    /\ call.result.jointAngles.leftElbow = 90
    /\ call.result.jointAngles.leftKnee = 0 - 1

-----------------------------------------------------------------------------
(* Claims about the pain estimator: C23 and C24 under SpecFace *)

\* the score of the returned analysis, as a fraction n/d of tenths
RawScore == call.result.pain_score_raw

ScoreAbove(tenths) == RawScore[1] > tenths * RawScore[2]

\* C23: an analysis that analyzePainClinical returns has a score between 0
\* and 10, pain_detected exactly when the score is above 7.5, intensity
\* Critical above 9, High above 7, Moderate above 4 and Low otherwise, and
\* action STOP_EXERCISE for High or Critical, Warning for Moderate, Continue
\* otherwise.
C23_PainAnalysisBands ==
    (Returned("analyzePainClinical") /\ ~call.result.threw) =>
        /\ RawScore[2] > 0 /\ RawScore[1] >= 0 /\ ~ScoreAbove(100)
        /\ call.result.pain_detected = ScoreAbove(75)
        /\ call.result.intensity_level =
             IF ScoreAbove(90) THEN "Critical"
             ELSE IF ScoreAbove(70) THEN "High"
             ELSE IF ScoreAbove(40) THEN "Moderate" ELSE "Low"
        /\ call.result.recommended_action =
             IF call.result.intensity_level \in {"High", "Critical"} THEN "STOP_EXERCISE"
             ELSE IF call.result.intensity_level = "Moderate"
             THEN "Warning: Reduce Weight" ELSE "Continue"
        /\ call.result.pain_detected => call.result.recommended_action = "STOP_EXERCISE"

\* a score between 7 and 7.5: High and STOP_EXERCISE without pain_detected
C23_Witness ==
    /\ Returned("analyzePainClinical") /\ ~call.result.threw
    /\ ScoreAbove(70) /\ ~ScoreAbove(75)
    /\ call.result.intensity_level = "High" /\ ~call.result.pain_detected

\* every action unit at full intensity: 11.85 capped to 10
PainScoreCapped ==
    /\ Returned("analyzePainClinical") /\ ~call.result.threw
    /\ RawScore = RInt(100) /\ RGt(PainScore(call.face, call.baseline), RInt(100))

\* a Moderate score
PainScoreModerate ==
    /\ Returned("analyzePainClinical") /\ ~call.result.threw
    /\ call.result.intensity_level = "Moderate" /\ call.baseline # <<>>

\* C24: when a landmark the estimator reads is missing or the two eyes
\* coincide, analyzePainClinical returns the no-pain result and throws
\* nothing.
C24_MissingFaceMeansNoPain ==
    (/\ Returned("analyzePainClinical")
     /\ \/ ~call.face.tested \/ ~call.face.inner \/ ~call.face.outer
        \/ call.face.eyeDistZero) =>
        call.result = NoPainResult

\* the call throwing for a face without its inner eye corners
ThrowsWithoutInnerEye ==
    Returned("analyzePainClinical") /\ ~call.face.inner /\ call.face.tested
        /\ call.result = [threw |-> TRUE]

\* the no-pain result for coinciding eyes
NoPainForCoincidingEyes ==
    Returned("analyzePainClinical") /\ call.face.eyeDistZero /\ call.result = NoPainResult

-----------------------------------------------------------------------------
(* Claims about the DTW comparator: C25 under SpecDTW *)

SelfComparisonNaN ==
    /\ Returned("computeDTW")
    /\ call.userSequence = <<(<<>>)>> /\ call.frames = call.userSequence
    /\ call.result.distance = <<"nan", 0, 1>>
    /\ call.result.qualityScore = <<"nan", 0, 1>>

\* the claim for sequences whose frames all hold a landmark
DTWIdentityOnFullFrames ==
    (/\ Returned("computeDTW")
     /\ call.userSequence # <<>> /\ call.frames = call.userSequence
     /\ \A i \in 1..Len(call.userSequence) : call.userSequence[i] # <<>>) =>
        /\ call.result.distance = <<"num", 0, 1>>
        /\ call.result.qualityScore = <<"num", 100, 1>>
        /\ call.result.alignmentPath =
              [i \in 1..Len(call.userSequence) |-> <<i - 1, i - 1>>]

\* two frames compared with themselves
SelfComparisonFull ==
    /\ Returned("computeDTW")
    /\ call.userSequence = <<(<<0>>), (<<1>>)>> /\ call.frames = call.userSequence
    /\ call.result.qualityScore = <<"num", 100, 1>>

\* an empty reference
EmptyReferenceCompared ==
    /\ Returned("computeDTW") /\ call.userSequence # <<>> /\ call.frames = <<>>
    /\ call.result.distance = <<"inf", 1, 1>>

\* a displaced reference: distance 2 over two frames, quality round(100/e^5) = 1
DisplacedReferenceCompared ==
    /\ Returned("computeDTW")
    /\ call.userSequence = <<(<<0>>), (<<0>>)>> /\ call.frames = <<(<<1>>), (<<1>>)>>
    /\ call.result.distance = <<"num", 2, 1>>
    /\ call.result.qualityScore = <<"num", 1, 1>>
    /\ call.result.alignmentPath = <<(<<0, 0>>), (<<1, 1>>)>>

-----------------------------------------------------------------------------
(* Claims about the rep cycle: C26 under SpecCycle *)

\* the phase that opens the cycle of an exercise
FirstPhase(id) ==
    IF id \in {"pushup", "tricep-dip", "squat", "lunge"} THEN "DOWN" ELSE "UP"

\* the smoothed angle a is past the threshold that closes the cycle,
\* relaxed by 10 degrees
PastClosingThreshold(id, a) ==
    IF id \in {"pushup", "tricep-dip", "squat", "lunge"}
    THEN a[1] > (UpAngleThreshold(id) - 10) * a[2]
    ELSE IF id = "bicep-curl"
    THEN a[1] > (DownAngleThreshold(id) - 10) * a[2]
    ELSE a[1] < (DownAngleThreshold(id) + 10) * a[2]

RepCountedDownFirst == eng.exerciseId = "lunge" /\ eng.state.phase = "COMPLETE"

RepCountedCurl == eng.exerciseId = "bicep-curl" /\ eng.state.phase = "COMPLETE"

RepCountedUpFirst ==
    /\ eng.exerciseId = "jumping-jack" /\ eng.state.phase = "UP"
    /\ eng.state.repCount = 1

-----------------------------------------------------------------------------
(* Claims about lost tracking: C27, C28 and C30 under SpecTrack *)

\* the call just made analysed a frame whose primary angle was -1: the
\* stamp of the last valid angle is not the frame's
LostFrame ==
    /\ last'.op = "processFrame" /\ last'.outcome = "analysed"
    /\ eng'.lastValidAngleTimestamp # now'

\* the time between that frame and the last frame with a valid angle
LostFor == now' - eng.lastValidAngleTimestamp

\* the angle processFrame went on with
AngleUsed == eng'.angleHistory[Len(eng'.angleHistory)]

\* the last primary angle that was not -1
LastValidAngle == mon.validAngles[Len(mon.validAngles)]

\* C27: a frame whose primary angle is -1 and that arrives less than 300 ms
\* after the last frame with a valid primary angle is given that last valid
\* angle, and leaves the committed phase, the debounce counter and the rep
\* count as they are or further on, never reset.
C27_BriefLossLatched ==
    [][(LostFrame /\ LostFor < 300 /\ mon.validAngles # <<>>) =>
          /\ AngleUsed = LastValidAngle
          /\ eng'.state.repCount >= eng.state.repCount
          /\ eng'.state.phase # eng.state.phase => eng'.state.phase # "IDLE"
          /\ eng'.lastAttemptedPhase = eng.lastAttemptedPhase =>
                eng'.phaseFrameCount >= eng.phaseFrameCount]_vars

\* frames of 170 and 40 degrees and then a lost frame: it is given 105
LatchedToSmoothedAngle ==
    /\ mon.validAngles = <<RInt(170), RInt(40)>>
    /\ eng.angleHistory = <<RInt(170), RInt(40), RInt(105)>>
    /\ eng.lastValidAngleTimestamp = now - 100

\* C28: a frame whose primary angle is -1 and that arrives 300 ms or more
\* after the last valid angle leaves the phase, the rep count, the candidate
\* phase and its frame count unchanged.
C28_LongLossFreezesDetection ==
    [][(LostFrame /\ LostFor >= 300) =>
          /\ eng'.state.phase = eng.state.phase
          /\ eng'.state.repCount = eng.state.repCount
          /\ eng'.lastAttemptedPhase = eng.lastAttemptedPhase
          /\ eng'.phaseFrameCount = eng.phaseFrameCount]_vars

\* DOWN committed on the second of two lost frames 400 ms apart
CommittedWhileLost ==
    /\ mon.validAngles = <<RInt(40), RInt(40)>>
    /\ Len(eng.angleHistory) = 4 /\ eng.angleHistory[4] = UNRELIABLE
    /\ eng.state.phase = "DOWN" /\ eng.phaseFrameCount = 4
    /\ now - eng.lastValidAngleTimestamp = 800

\* C30: after an analysed frame, currentAngle is the mean of the last seven
\* primary angles that were not -1 since calibration ended, or of all of
\* them when they are fewer; the smoothing window holds at most seven
\* samples and never a -1.
C30_SmoothedIsMeanOfValid ==
    (last.op = "processFrame" /\ last.outcome = "analysed") =>
        /\ mon.validAngles # <<>> => eng.state.currentAngle = Mean(mon.validAngles)
        /\ Len(eng.smaAngleHistory) <= 7
        /\ \A i \in 1..Len(eng.smaAngleHistory) : eng.smaAngleHistory[i] # UNRELIABLE

\* 170, 40, a latched frame and 40: the window holds the latched 105
LatchedSampleInWindow ==
    /\ mon.validAngles = <<RInt(170), RInt(40), RInt(40)>>
    /\ eng.smaAngleHistory = <<RInt(170), RInt(40), RInt(105), RInt(40)>>
    /\ eng.state.currentAngle = Rat(355, 4)

\* the window and its bound, which hold as claimed
WindowBounded ==
    /\ Len(eng.smaAngleHistory) <= SMA_WINDOW
    /\ \A i \in 1..Len(eng.smaAngleHistory) : eng.smaAngleHistory[i] # UNRELIABLE

WindowFull == Len(eng.smaAngleHistory) = SMA_WINDOW /\ nframes = env.maxFrames

-----------------------------------------------------------------------------
(* Claims about tracking glitches: C29 under SpecRep *)

\* the call just made analysed a frame
FrameAnalysed == last'.op = "processFrame" /\ last'.outcome = "analysed"

\* the average angular velocity after the call exceeds 1000 degrees a second
VelocitySpike ==
    eng'.state.angularVelocity[1] > 1000 * eng'.state.angularVelocity[2]

\* the smoothed angle after the call, compared with a whole number of degrees
SmoothedBelow(degrees) ==
    eng'.state.currentAngle[1] < degrees * eng'.state.currentAngle[2]

SmoothedAbove(degrees) ==
    eng'.state.currentAngle[1] > degrees * eng'.state.currentAngle[2]

\* C29: a frame on which the average angular velocity exceeds 1000 degrees a
\* second leaves the phase, the rep count, the candidate phase and its count
\* unchanged and resets nothing (rep count, smoothing window, baseline,
\* calibration, rep timer); on a later squat frame whose velocity is at or
\* below the threshold, phase detection acts again: it counts a frame for
\* DOWN below 100 degrees and counts the rep above 150.
C29_GlitchSkipsOneFrame ==
    [][FrameAnalysed =>
          /\ VelocitySpike =>
                /\ eng'.state.phase = eng.state.phase
                /\ eng'.state.repCount = eng.state.repCount
                /\ eng'.lastAttemptedPhase = eng.lastAttemptedPhase
                /\ eng'.phaseFrameCount = eng.phaseFrameCount
                /\ eng'.smaAngleHistory =
                      (IF Len(eng.smaAngleHistory) < 7 THEN eng.smaAngleHistory
                       ELSE Tail(eng.smaAngleHistory))
                      \o <<eng'.angleHistory[Len(eng'.angleHistory)]>>
                /\ eng'.baseline = eng.baseline
                /\ eng'.state.isCalibrating = eng.state.isCalibrating
                /\ eng'.lastRepTimestamp = eng.lastRepTimestamp
          /\ (/\ ~VelocitySpike
              /\ eng.exerciseId = "squat"
              /\ now' - eng.lastRepTimestamp >= 850) =>
                /\ (eng.state.phase \in {"IDLE", "UP", "COMPLETE"} /\ SmoothedBelow(100)) =>
                      /\ eng'.lastAttemptedPhase = "DOWN"
                      /\ eng'.phaseFrameCount =
                            IF eng.lastAttemptedPhase = "DOWN"
                            THEN eng.phaseFrameCount + 1 ELSE 1
                /\ (eng.state.phase = "DOWN" /\ SmoothedAbove(150)) =>
                      eng'.state.repCount = eng.state.repCount + 1]_vars

\* after a rep: the frames 170, 40, 170 and eight of 40.  The velocity
\* exceeded the threshold up to the frame before the last, so the last frame
\* is the first to count for DOWN although the smoothed angle was 40 on the
\* frame before it as well.
C29_Witness ==
    /\ eng.state.repCount = 1
    /\ eng.angleHistory =
          <<RInt(40), RInt(170), RInt(40), RInt(40), RInt(40),
            RInt(40), RInt(40), RInt(40), RInt(40), RInt(40)>>
    /\ eng.smaAngleHistory = [i \in 1..7 |-> RInt(40)]
    /\ eng.lastAttemptedPhase = "DOWN" /\ eng.phaseFrameCount = 1
    /\ ~IsGlitching(eng)

\* a glitching frame with a rep already counted
GlitchAfterRep == eng.state.repCount = 1 /\ IsGlitching(eng)

-----------------------------------------------------------------------------
(* Claims about the alignment path: C31 under SpecDTW *)

\* every frame of both sequences holds the same number of landmarks
EqualLengthFrames ==
    \A f \in {call.userSequence[i] : i \in 1..Len(call.userSequence)}
             \cup {call.frames[j] : j \in 1..Len(call.frames)} :
        Len(f) = Len(call.userSequence[1])

RECURSIVE MonotonePaths(_, _)
\* the paths from (0,0) to (i,j) that advance one index or both at each step
MonotonePaths(i, j) ==
    IF i = 0 /\ j = 0 THEN {<<(<<0, 0>>)>>}
    ELSE LET before == (IF i > 0 THEN MonotonePaths(i - 1, j) ELSE {})
                       \cup (IF j > 0 THEN MonotonePaths(i, j - 1) ELSE {})
                       \cup (IF i > 0 /\ j > 0 THEN MonotonePaths(i - 1, j - 1) ELSE {})
         IN {Append(p, <<i, j>>) : p \in before}

RECURSIVE PathCost(_, _)
\* the sum of the frame distances along a path, up to its k-th pair
PathCost(p, k) ==
    IF k = 0 THEN <<"num", 0, 1>>
    ELSE XAdd(PathCost(p, k - 1),
              PoseDistance(call.userSequence[p[k][1] + 1], call.frames[p[k][2] + 1]))

\* the path starts at (0,0), ends at (n-1,m-1), advances one index or both
\* at each step, costs the returned distance, and no monotone path costs less
PathIsOptimal ==
    LET p == call.result.alignmentPath
        n == Len(call.userSequence)
        m == Len(call.frames)
    IN /\ p # <<>>
       /\ p[1] = <<0, 0>>
       /\ p[Len(p)] = <<n - 1, m - 1>>
       /\ \A k \in 1..(Len(p) - 1) :
             /\ p[k + 1][1] - p[k][1] \in {0, 1}
             /\ p[k + 1][2] - p[k][2] \in {0, 1}
             /\ p[k + 1] # p[k]
       /\ call.result.distance = PathCost(p, Len(p))
       /\ \A q \in MonotonePaths(n - 1, m - 1) :
             XLe(call.result.distance, PathCost(q, Len(q)))

PathMissesOrigin ==
    /\ Returned("computeDTW")
    /\ call.userSequence = <<(<<>>), (<<>>)>> /\ call.frames = call.userSequence
    /\ call.result.alignmentPath = <<(<<0, 1>>), (<<1, 1>>)>>

\* the claim for frames that hold a landmark
PathOptimalOnFullFrames ==
    (/\ Returned("computeDTW")
     /\ call.userSequence # <<>> /\ call.frames # <<>>
     /\ EqualLengthFrames /\ call.userSequence[1] # <<>>) => PathIsOptimal

\* a path with a repeated index: two frames against three
PathWithRepeatedIndex ==
    /\ Returned("computeDTW")
    /\ call.userSequence = <<(<<0>>), (<<1>>)>>
    /\ call.frames = <<(<<0>>), (<<1>>), (<<1>>)>>
    /\ call.result.alignmentPath = <<(<<0, 0>>), (<<1, 1>>), (<<1, 2>>)>>
    /\ call.result.distance = <<"num", 0, 1>>

-----------------------------------------------------------------------------
(* Claims about the streaming comparator: C32 under SpecStream *)

\* C32: the buffer of a StreamingDTW holds at most 2 * windowSize frames,
\* the most recent ones handed to addFrame since construction or reset;
\* addFrame returns null while fewer than windowSize / 2 frames have come,
\* and afterwards the comparison of the current buffer with the reference
\* the object was built with.
C32_StreamingWindow ==
    call.fn = "StreamingDTW" =>
        /\ Len(call.userBuffer) <= 2 * call.windowSize
        /\ Len(call.userBuffer) <= Len(call.fed)
        /\ call.userBuffer =
              SubSeq(call.fed, Len(call.fed) - Len(call.userBuffer) + 1, Len(call.fed))
        /\ call.goldSequence = StreamReference
        /\ call.done =>
              call.returned =
                 IF 2 * Len(call.fed) < call.windowSize THEN <<>>
                 ELSE <<ComputeDTW(call.userBuffer, StreamReference)>>

\* the buffer of a window of 3 cut from 7 frames to 3, with a result
\* computed from those
C32_Witness ==
    /\ call.fn = "StreamingDTW" /\ call.windowSize = 3 /\ call.done
    /\ Len(call.fed) = 7 /\ Len(call.userBuffer) = 3
    /\ call.returned # <<>>

\* null returned for the second frame of a window of 5
StreamNotReady ==
    /\ call.fn = "StreamingDTW" /\ call.windowSize = 5 /\ call.done
    /\ Len(call.fed) = 2 /\ call.returned = <<>>

\* null again after a reset that follows a result
StreamNotReadyAfterReset ==
    /\ call.fn = "StreamingDTW" /\ call.windowSize = 5 /\ call.done
    /\ call.resets = 1 /\ call.calls >= 5
    /\ Len(call.fed) = 1 /\ call.returned = <<>>

-----------------------------------------------------------------------------
(* Claims about the plank's hold time: C33 under SpecPlank *)

\* C33: a plank frame adds to the accumulated hold duration at most the time
\* since the frame before it, and only when that frame passed the hold test
\* too: the time spanned by one to three failing frames inside a hold, and
\* by the frames that confirm the hold again, is not added.
C33_HoldTimeExcludesLapses ==
    [][(/\ last'.op = "processFrame" /\ now # NULL
        /\ eng.state.angularVelocity[1] <= 1000 * eng.state.angularVelocity[2]) =>
          eng'.cumulativeHoldDuration - eng.cumulativeHoldDuration
             <= IF mon.plankRun > 0 THEN now' - now ELSE 0]_vars

\* four passing frames, one failing frame and four passing frames, 500 ms
\* apart: the ninth frame adds the 2.5 s since the fourth
LapseAddedToHold ==
    /\ Analysed /\ nframes = CalFrames(500) + 9 /\ nresets = 0
    /\ mon.plankRun = MIN_PHASE_FRAMES
    /\ eng.cumulativeHoldDuration = 2500 /\ eng.state.repCount = 2
    /\ last.rep = <<2>>

\* frames that pass the test one after the other add the time between them
HoldAddsFrameInterval ==
    /\ Analysed /\ nframes = CalFrames(500) + 6 /\ nresets = 0
    /\ mon.plankRun = 6 /\ eng.cumulativeHoldDuration = 1000

-----------------------------------------------------------------------------
(* Claims about the published pain analysis: C34 under SpecPain *)

\* the published pain_score_raw, in thousandths of the 0-10 scale
PublishedRaw == eng.state.painAnalysis.pain_score_raw

\* the band of the published score
PublishedBand ==
    IF PublishedRaw > 9000 THEN "Critical"
    ELSE IF PublishedRaw > 7000 THEN "High"
    ELSE IF PublishedRaw > 4000 THEN "Moderate"
    ELSE "Low"

\* C34: in the state processFrame returns, pain_detected, intensity_level
\* and recommended_action of painAnalysis are the ones the estimator's bands
\* give to the pain_score_raw published beside them.
C34_PublishedAnalysisConsistent ==
    last.op = "processFrame" =>
        /\ eng.state.painAnalysis.pain_detected = (PublishedRaw > 7500)
        /\ eng.state.painAnalysis.intensity_level = PublishedBand
        /\ eng.state.painAnalysis.recommended_action =
              IF PublishedBand \in {"Critical", "High"} THEN "STOP_EXERCISE"
              ELSE IF PublishedBand = "Moderate" THEN "Warning: Reduce Weight"
              ELSE "Continue"

\* the first analysed frame, with a face that scores 8.6: the published
\* score is below 4 beside pain_detected and High
DetectedBesideLowScore ==
    /\ Analysed /\ nframes = CalFrames(1250) + 1
    /\ eng.state.painAnalysis.pain_detected
    /\ eng.state.painAnalysis.intensity_level = "High"
    /\ eng.state.painAnalysis.recommended_action = "STOP_EXERCISE"
    /\ PublishedRaw < 4000

-----------------------------------------------------------------------------
(* Claims about the rep count: C35 under SpecRep *)

\* C35: a processFrame call never lowers repCount; for a rep-based exercise
\* it raises it by at most 1, and a rep that follows another one comes after
\* at least 4 frames on which phase detection indicated the phase that
\* opens the cycle.
C35_RepCountMonotone ==
    [][last'.op = "processFrame" =>
          /\ eng'.state.repCount >= eng.state.repCount
          /\ eng.exerciseId # "plank" =>
                /\ eng'.state.repCount <= eng.state.repCount + 1
                /\ (eng'.state.repCount > eng.state.repCount /\ eng.state.repCount > 0) =>
                      mon.armed >= 4]_vars

\* a second squat rep, counted 400 ms after the first
C35_Witness ==
    /\ Analysed /\ eng.exerciseId = "squat"
    /\ eng.state.repCount = 2 /\ last.rep = <<2>>
    /\ mon.repGap = 400

-----------------------------------------------------------------------------
(* Claims about the calibration flags: C36 under SpecCal *)

\* C36: for an engine with a known exercise, isCalibrating is true exactly
\* when no baseline is set, calibrationProgress lies between 0 and 100, and
\* calibrationProgress is 100 whenever isCalibrating is false.
C36_CalibrationFlagsConsistent ==
    eng.exerciseId \in KnownExercises =>
        /\ eng.state.isCalibrating = (eng.baseline = <<>>)
        /\ ~RLt(eng.state.calibrationProgress, ZERO)
        /\ ~RGt(eng.state.calibrationProgress, RInt(100))
        /\ ~eng.state.isCalibrating => eng.state.calibrationProgress = RInt(100)

\* calibration ended by a frame stamped more than 3000 ms after the first
\* accepted one, and an analysed frame after it
C36_Witness ==
    /\ Analysed /\ ~eng.state.isCalibrating
    /\ eng.exerciseId \in KnownExercises
    /\ eng.baseline # <<>>
    /\ eng.calibrationStartTime # NULL
    /\ mon.firstAccepted # NULL
    /\ eng.state.calibrationProgress = RInt(100)
    /\ Len(eng.calibrationFrames) >= 2

\* calibration restarted by reset() after a baseline had been measured
C36_RestartedByReset ==
    /\ nresets > 0 /\ eng.state.isCalibrating /\ eng.baseline = <<>>
    /\ CalibrationFrame
    /\ RGt(eng.state.calibrationProgress, ZERO)
    /\ RLt(eng.state.calibrationProgress, RInt(100))

-----------------------------------------------------------------------------
(* Claims about the database: C37 under SpecSave, C38 under SpecStreak *)

SaveEnded ==
    /\ call.fn = "saveWorkoutSession"
    /\ \A p \in Callers : call.proc[p].pc \in {"resolved", "rejected"}

\* what the day's row held before the two calls
StatsBefore ==
    LET row == DailyStatsGet(call.before, call.today)
    IN IF row = <<>>
       THEN [totalReps |-> 0, exerciseCount |-> 0, totalDuration |-> 0]
       ELSE [totalReps |-> row[1].totalReps, exerciseCount |-> row[1].exerciseCount,
             totalDuration |-> row[1].totalDuration]

RECURSIVE SumFormScore(_)
SumFormScore(sessions) ==
    IF sessions = <<>> THEN 0
    ELSE Head(sessions).formScore + SumFormScore(Tail(sessions))

SessionsOfToday == SelectSeq(call.db.sessions, LAMBDA s : s.date = call.today)

\* C37: when two saveWorkoutSession calls of the same day have ended, however
\* their database steps interleaved, both have resolved and the day's row
\* has totalReps and totalDuration raised by the sum of both sessions,
\* exerciseCount raised by 2 and avgFormScore equal to the mean form score
\* of the day's sessions.
C37_ConcurrentSavesAddUp ==
    SaveEnded =>
        /\ \A p \in Callers : call.proc[p].pc = "resolved"
        /\ LET row == DailyStatsGet(call.db, call.today)
           IN /\ row # <<>>
              /\ row[1].totalReps = StatsBefore.totalReps
                     + call.proc[1].session.reps + call.proc[2].session.reps
              /\ row[1].totalDuration = StatsBefore.totalDuration
                     + call.proc[1].session.duration + call.proc[2].session.duration
              /\ row[1].exerciseCount = StatsBefore.exerciseCount + 2
              /\ row[1].avgFormScore =
                     Rat(SumFormScore(SessionsOfToday), Len(SessionsOfToday))

\* both calls resolved, the day's row counting one of the two sessions only
C37_LostUpdate ==
    /\ SaveEnded
    /\ \A p \in Callers : call.proc[p].pc = "resolved"
    /\ StatsBefore.exerciseCount = 1
    /\ DailyStatsGet(call.db, call.today)[1].exerciseCount = 2
    /\ Len(SessionsOfToday) = 3

\* the second insert of the day's first row rejected
C37_FailedInsert ==
    /\ SaveEnded
    /\ call.proc[1].pc = "resolved" /\ call.proc[2].pc = "rejected"
    /\ StatsBefore.exerciseCount = 0
    /\ DailyStatsGet(call.db, call.today)[1].exerciseCount = 1
    /\ Len(SessionsOfToday) = 2

\* two calls whose steps did not interleave at the day's row
C37_SavesAddUp ==
    /\ SaveEnded
    /\ \A p \in Callers : call.proc[p].pc = "resolved"
    /\ StatsBefore.exerciseCount = 1
    /\ DailyStatsGet(call.db, call.today)[1].exerciseCount = 3
    /\ DailyStatsGet(call.db, call.today)[1].avgFormScore =
           Rat(SumFormScore(SessionsOfToday), 3)

\* C38: an updateStreak call leaves a latest streak record with
\* 1 <= currentStreak <= longestStreak and a longestStreak not below the one
\* before; on the day of lastActiveDate it changes nothing, on the day after
\* it adds 1 to currentStreak, and after a gap of more than one day it
\* restarts currentStreak at 1.
C38_StreakRules ==
    [][call'.fn = "updateStreak" =>
         LET before == StreaksLast(call.db)
             after == StreaksLast(call'.db)
             today == call'.today
         IN /\ after # <<>>
            /\ 1 <= after[1].currentStreak
            /\ after[1].currentStreak <= after[1].longestStreak
            /\ before # <<>> =>
                 /\ after[1].longestStreak >= before[1].longestStreak
                 /\ before[1].lastActiveDate = today => call'.db = call.db
                 /\ before[1].lastActiveDate + 1 = today =>
                        after[1].currentStreak = before[1].currentStreak + 1
                 /\ before[1].lastActiveDate + 1 < today =>
                        after[1].currentStreak = 1]_vars

\* a streak of two days, then a gap: a new record that starts at 1 and keeps
\* the longest streak of 2
C38_Witness ==
    /\ call.fn = "updateStreak" /\ call.calls = MaxStreakCalls
    /\ Len(call.db.streaks) = 2
    /\ call.db.streaks[1].currentStreak = 2 /\ call.db.streaks[1].longestStreak = 2
    /\ call.db.streaks[2].currentStreak = 1 /\ call.db.streaks[2].longestStreak = 2
    /\ call.db.streaks[2].lastActiveDate = MaxDay

\* a second call on the same day
C38_SameDayTwice ==
    /\ call.fn = "updateStreak" /\ call.calls = 3
    /\ Len(call.db.streaks) = 1
    /\ call.db.streaks[1].currentStreak = 2
    /\ call.db.streaks[1].lastActiveDate = call.today

====
